---- MODULE Spec2Model ----
(***************************************************************************)
(* Model of the workflow documentation generator:                          *)
(*   src/src/generate-docs.ts          the entry point (scan, then render) *)
(*   src/src/lib/workflow-scanner.ts   scanWorkflows (the collector)       *)
(*   src/unnamed/part_003              doc-generator (the renderer)        *)
(*                                                                         *)
(* Text is modelled as a sequence of tokens, every token a TLA+ string.    *)
(* A token is either one character ("a", " ", "\n") or one literal of the  *)
(* source that the program only ever handles as a whole (a marker comment, *)
(* a heading line, a path segment).  A token in angle brackets names such  *)
(* a literal.                                                              *)
(***************************************************************************)
EXTENDS Integers, Sequences, FiniteSets, TLC

(***************************************************************************)
(* Bounds of the model.                                                    *)
(***************************************************************************)
MaxFiles == 2      \* workflow definition files in .github/workflows
MaxActions == 1    \* directories in .github/actions
MaxRuns == 2       \* successive runs of the generator
MaxTail == 1       \* characters appended to a stem in the classifier inputs
MaxText == 6       \* characters of a text given to wrapText
MaxWidth == 3      \* the greatest width given to wrapText
MaxLines == 4      \* lines of a raw text given to getWorkflowDescription
MaxRecords == 3    \* records given to the table rendering
MaxKeys == 3       \* entries of a parameter mapping
MaxDirs == 2       \* action directories of a directory rendered once

(***************************************************************************)
(* String helpers: the JavaScript String methods the source uses.          *)
(***************************************************************************)
Min(a, b) == IF a <= b THEN a ELSE b
Max(a, b) == IF a >= b THEN a ELSE b

\* s.startsWith(p)
StartsWith(s, p) == Len(p) <= Len(s) /\ SubSeq(s, 1, Len(p)) = p

\* s.substring(a) and s.substring(a, b) on 0-based offsets, arguments clamped
\* to [0, length] as String.prototype.substring does
Clamp(s, k) == Max(0, Min(k, Len(s)))
Substring(s, a, b) ==
  SubSeq(s, Min(Clamp(s, a), Clamp(s, b)) + 1, Max(Clamp(s, a), Clamp(s, b)))
SubstringFrom(s, a) == Substring(s, a, Len(s))

\* s.indexOf(p): the 0-based offset of the first occurrence of p, or -1
IndexOf(s, p) ==
  LET hits == {k \in 0..(Len(s) - Len(p)) : SubSeq(s, k + 1, k + Len(p)) = p}
  IN  IF hits = {} THEN -1 ELSE CHOOSE k \in hits : \A j \in hits : k <= j

\* s.includes(p)
Includes(s, p) == IndexOf(s, p) # -1

\* s.lastIndexOf(p, from): the greatest offset <= from where p occurs, or -1
LastIndexOf(s, p, from) ==
  LET hits == {k \in 0..Min(from, Len(s) - Len(p)) :
                 SubSeq(s, k + 1, k + Len(p)) = p}
  IN  IF hits = {} THEN -1 ELSE CHOOSE k \in hits : \A j \in hits : k >= j

\* s.replace(p, '') with a string pattern: the first occurrence only
RemoveFirst(s, p) ==
  LET k == IndexOf(s, p)
  IN  IF k = -1 THEN s ELSE SubSeq(s, 1, k) \o SubSeq(s, k + Len(p) + 1, Len(s))

UpperAlpha == <<"A","B","C","D","E","F","G","H","I","J","K","L","M",
                "N","O","P","Q","R","S","T","U","V","W","X","Y","Z">>
LowerAlpha == <<"a","b","c","d","e","f","g","h","i","j","k","l","m",
                "n","o","p","q","r","s","t","u","v","w","x","y","z">>
ToLowerChar(c) ==
  IF \E k \in 1..26 : UpperAlpha[k] = c
  THEN LowerAlpha[CHOOSE k \in 1..26 : UpperAlpha[k] = c]
  ELSE c
ToLower(s) == [k \in 1..Len(s) |-> ToLowerChar(s[k])]

IsSpace(c) == c \in {" ", "\t", "\r", "\n"}

\* s.trim()
RECURSIVE TrimStart(_)
TrimStart(s) ==
  IF s # <<>> /\ IsSpace(Head(s)) THEN TrimStart(Tail(s)) ELSE s
RECURSIVE TrimEnd(_)
TrimEnd(s) ==
  IF s # <<>> /\ IsSpace(s[Len(s)]) THEN TrimEnd(SubSeq(s, 1, Len(s) - 1)) ELSE s
Trim(s) == TrimEnd(TrimStart(s))

\* parts.join(sep)
RECURSIVE Join(_, _)
Join(parts, sep) ==
  IF parts = <<>> THEN <<>>
  ELSE IF Len(parts) = 1 THEN parts[1]
  ELSE parts[1] \o sep \o Join(Tail(parts), sep)

\* s.split(tok): the pieces of a text between the occurrences of a token
RECURSIVE SplitOn(_, _)
SplitOn(text, tok) ==
  IF \A k \in 1..Len(text) : text[k] # tok THEN <<text>>
  ELSE LET k == CHOOSE i \in 1..Len(text) :
                  text[i] = tok /\ \A j \in 1..(i - 1) : text[j] # tok
       IN  <<SubSeq(text, 1, k - 1)>> \o SplitOn(SubSeq(text, k + 1, Len(text)), tok)

\* concatenation of a sequence of texts
RECURSIVE Flatten(_)
Flatten(parts) == IF parts = <<>> THEN <<>> ELSE Head(parts) \o Flatten(Tail(parts))

(***************************************************************************)
(* Paths (Node's posix path module).                                       *)
(***************************************************************************)
RECURSIVE StripTrailingSlash(_)
StripTrailingSlash(p) ==
  IF p # <<>> /\ p[Len(p)] = "/" THEN StripTrailingSlash(SubSeq(p, 1, Len(p) - 1))
  ELSE p

\* the text after the last character of p that satisfies a separator test
LastSegment(p, backslash) ==
  LET seps == {k \in 1..Len(p) : p[k] = "/" \/ (backslash /\ p[k] = "\\")}
  IN  IF seps = {} THEN p
      ELSE SubSeq(p, (CHOOSE k \in seps : \A j \in seps : k >= j) + 1, Len(p))

\* path.basename(p)
Basename(p) == LastSegment(StripTrailingSlash(p), FALSE)

\* path.extname(p): from the last "." of the base name, "" when there is none
\* or when the only "." is the first character
Extname(p) ==
  LET b == Basename(p)
      dots == {k \in 2..Len(b) : b[k] = "."}
  IN  IF dots = {} THEN <<>>
      ELSE SubSeq(b, CHOOSE k \in dots : \A j \in dots : k >= j, Len(b))

\* path.basename(p, ext)
BasenameExt(p, ext) ==
  LET b == Basename(p)
  IN  IF ext # <<>> /\ Len(ext) < Len(b)
         /\ SubSeq(b, Len(b) - Len(ext) + 1, Len(b)) = ext
      THEN SubSeq(b, 1, Len(b) - Len(ext))
      ELSE b

WorkflowsDir == <<".github", "/", "workflows", "/">>
ActionsDir == <<".github", "/", "actions", "/">>

(***************************************************************************)
(* wrapText and formatStackedWorkflowDetails                               *)
(***************************************************************************)
BR == <<"<br>">>

\* a variant that hard-splits one character past the width
RECURSIVE wrapTextSplittingLate(_, _)
wrapTextSplittingLate(text, maxLength) ==
  IF Len(text) <= maxLength THEN text
  ELSE LET lastSpaceIndex == LastIndexOf(text, <<" ">>, maxLength - 1)
       IN  IF lastSpaceIndex = -1
           THEN Substring(text, 0, maxLength + 1) \o BR
                  \o wrapTextSplittingLate(SubstringFrom(text, maxLength + 1), maxLength)
           ELSE Substring(text, 0, lastSpaceIndex) \o BR
                  \o wrapTextSplittingLate(SubstringFrom(text, lastSpaceIndex + 1), maxLength)

RECURSIVE wrapText(_, _)
wrapText(text, maxLength) ==
  IF Len(text) <= maxLength THEN text
  ELSE LET lastSpaceIndex == LastIndexOf(text, <<" ">>, maxLength - 1)
       IN  IF lastSpaceIndex = -1
           THEN Substring(text, 0, maxLength) \o BR
                  \o wrapText(SubstringFrom(text, maxLength), maxLength)
           ELSE Substring(text, 0, lastSpaceIndex) \o BR
                  \o wrapText(SubstringFrom(text, lastSpaceIndex + 1), maxLength)

\* a parameter mapping of a record: undefined, or its keys in insertion order
Undefined == [defined |-> FALSE, keys |-> <<>>]
Mapping(ks) == [defined |-> TRUE, keys |-> ks]

\* Object.keys(columns) of the plain object the YAML parser built: the keys
\* that are canonical array indices first, in ascending numeric order, then
\* the other keys in insertion order
IndexNames == <<"0", "1", "2", "3", "4", "5", "6", "7", "8", "9", "10">>
IsArrayIndex(key) == \E n \in 1..Len(IndexNames) : IndexNames[n] = key
ObjectKeys(columns) ==
  SelectSeq(IndexNames, LAMBDA name : \E k \in 1..Len(columns.keys) : columns.keys[k] = name)
    \o SelectSeq(columns.keys, LAMBDA key : ~IsArrayIndex(key))

formatStackedWorkflowDetails(columns) ==
  IF ~columns.defined \/ Len(columns.keys) = 0 THEN <<"*None*">>
  ELSE LET keys == ObjectKeys(columns)
       IN  Join([k \in 1..Len(keys) |-> <<"<backtick>", keys[k], "<backtick>">>], BR)

(***************************************************************************)
(* Classification                                                          *)
(***************************************************************************)
CATEGORY_MAPPINGS == <<
  [prefixes |-> << <<"_">> >>, category |-> "Internal"],
  [prefixes |-> << <<"t","e","s","t","-">> >>, category |-> "Testing"],
  [prefixes |-> << <<"q","u","a","l","i","t","y","-">> >>,
   category |-> "Code Quality"],
  [prefixes |-> << <<"d","e","p","l","o","y","-">>, <<"b","u","i","l","d","-">>,
                   <<"p","u","b","l","i","s","h","-">>,
                   <<"r","e","l","e","a","s","e","-">> >>,
   category |-> "Deployment"],
  [prefixes |-> << <<"s","e","c","u","r","i","t","y","-">>,
                   <<"s","c","a","n","-">>, <<"a","u","d","i","t","-">> >>,
   category |-> "Security"],
  [prefixes |-> << <<"u","t","i","l","-">>, <<"s","e","t","u","p","-">>,
                   <<"t","o","o","l","-">>,
                   <<"m","a","i","n","t","e","n","a","n","c","e","-">> >>,
   category |-> "Utilities"],
  [prefixes |-> << <<"d","o","c","-">>, <<"d","o","c","s","-">>,
                   <<"g","e","n","e","r","a","t","e","-">> >>,
   category |-> "Documentation"],
  [prefixes |-> << <<"n","o","t","i","f","y","-">>, <<"a","l","e","r","t","-">> >>,
   category |-> "Notifications"],
  [prefixes |-> << <<"m","o","n","i","t","o","r","-">>, <<"c","h","e","c","k","-">>,
                   <<"h","e","a","l","t","h","-">> >>,
   category |-> "Monitoring"] >>

\* a variant that accepts the prefix anywhere in the name (includes for startsWith)
MappingMatchesAnywhere(mapping, filename) ==
  \E k \in 1..Len(mapping.prefixes) : Includes(filename, mapping.prefixes[k])

\* mapping.prefixes.some((prefix) => filename.startsWith(prefix))
MappingMatches(mapping, filename) ==
  \E k \in 1..Len(mapping.prefixes) : StartsWith(filename, mapping.prefixes[k])

\* the for loop of getCategoryByFilename, from rule k on
RECURSIVE CategoryFrom(_, _)
CategoryFrom(k, filename) ==
  IF k > Len(CATEGORY_MAPPINGS) THEN "Miscellaneous"
  ELSE IF MappingMatches(CATEGORY_MAPPINGS[k], filename)
       THEN CATEGORY_MAPPINGS[k].category
       ELSE CategoryFrom(k + 1, filename)

getCategoryByFilename(filename) == CategoryFrom(1, filename)

\* the base name of filePath (split on slash or backslash, pop) with the first
\* .yml and then the first .yaml removed
StripYml(base) ==
  RemoveFirst(RemoveFirst(base, <<".","y","m","l">>), <<".","y","a","m","l">>)

categorizeWorkflow(workflow) ==
  getCategoryByFilename(StripYml(LastSegment(workflow.filePath, TRUE)))

\* the icon glyph of a category, as one token
IconOf(category) == "<icon " \o category \o ">"


(***************************************************************************)
(* The keyword classification of the earlier renderer (src/unnamed/part_004):*)
(* each rule of its if chain, in order, with the keywords it looks for in *)
(* the lower-cased display name.                                           *)
(***************************************************************************)
KEYWORD_MAPPINGS == <<
  [keywords |-> << <<"t","e","s","t">>,
                   <<"u","n","i","t">>,
                   <<"i","n","t","e","g","r","a","t","i","o","n">>,
                   <<"e","2","e">>,
                   <<"s","p","e","c">> >>,
   category |-> "Testing"],
  [keywords |-> << <<"f","o","r","m","a","t">>,
                   <<"l","i","n","t">>,
                   <<"t","y","p","e">>,
                   <<"q","u","a","l","i","t","y">>,
                   <<"p","r","e","t","t","i","e","r">>,
                   <<"e","s","l","i","n","t">> >>,
   category |-> "Code Quality"],
  [keywords |-> << <<"d","e","p","l","o","y">>,
                   <<"b","u","i","l","d">>,
                   <<"p","u","b","l","i","s","h">>,
                   <<"r","e","l","e","a","s","e">>,
                   <<"d","i","s","t">> >>,
   category |-> "Deployment"],
  [keywords |-> << <<"s","e","c","u","r","i","t","y">>,
                   <<"s","c","a","n">>,
                   <<"a","u","d","i","t">>,
                   <<"v","u","l","n","e","r","a","b","i","l","i","t","y">>,
                   <<"c","v","e">> >>,
   category |-> "Security"],
  [keywords |-> << <<"u","t","i","l">>,
                   <<"h","e","l","p","e","r">>,
                   <<"s","e","t","u","p">>,
                   <<"c","o","n","f","i","g">>,
                   <<"t","o","o","l">>,
                   <<"a","s","s","i","g","n">>,
                   <<"l","a","b","e","l">>,
                   <<"s","t","a","l","e">>,
                   <<"c","l","e","a","n","u","p">>,
                   <<"m","a","i","n","t","e","n","a","n","c","e">> >>,
   category |-> "Utilities"],
  [keywords |-> << <<"d","o","c">>,
                   <<"r","e","a","d","m","e">>,
                   <<"c","h","a","n","g","e","l","o","g">>,
                   <<"g","e","n","e","r","a","t","e">>,
                   <<"w","i","k","i">> >>,
   category |-> "Documentation"],
  [keywords |-> << <<"n","o","t","i","f","y">>,
                   <<"s","l","a","c","k">>,
                   <<"d","i","s","c","o","r","d">>,
                   <<"e","m","a","i","l">>,
                   <<"w","e","b","h","o","o","k">>,
                   <<"a","l","e","r","t">> >>,
   category |-> "Notifications"],
  [keywords |-> << <<"m","o","n","i","t","o","r">>,
                   <<"h","e","a","l","t","h">>,
                   <<"c","h","e","c","k">>,
                   <<"s","t","a","t","u","s">>,
                   <<"p","i","n","g">>,
                   <<"u","p","t","i","m","e">> >>,
   category |-> "Monitoring"] >>


(***************************************************************************)
(* The file system.  A workflow definition file is described by its name,  *)
(* whether it can be read, its raw text (a sequence of lines) and what the *)
(* YAML parser, an external library, returns for that text.                *)
(*   on.kind  "absent" | "string" | "list" | "map": the shape of `on`      *)
(*   on.keys  the trigger names (the one name of a string, the items of a  *)
(*            list, the keys of a mapping)                                 *)
(*   on.call  the value of on.workflow_call when `on` is a mapping that    *)
(*            has the key: "null" or "map" with its three sub-maps         *)
(***************************************************************************)
NoCall == [kind |-> "absent", inputs |-> Undefined, secrets |-> Undefined,
           outputs |-> Undefined]
NullCall == [kind |-> "null", inputs |-> Undefined, secrets |-> Undefined,
             outputs |-> Undefined]

FileFormat ==
  [fileName |-> <<"_","f","o","r","m","a","t",".","y","m","l">>, readable |-> TRUE,
   lines |-> << <<"#"," ","F","o","r","m","a","t","s">>, <<"name: Format">>,
                <<"on:">>, <<" ", " ", "push", ":">> >>,
   syntaxOk |-> TRUE, hasName |-> TRUE, name |-> <<"F","o","r","m","a","t">>,
   on |-> [kind |-> "map", keys |-> <<"push">>, call |-> NoCall]]

FileLint ==
  [fileName |-> <<"q","u","a","l","i","t","y","-","l","i","n","t",".","y","m","l">>, readable |-> TRUE,
   lines |-> << <<"#">>, <<" ","#"," ","L","i","n","t","s"," ">>,
                <<"name: Reusable Lint">>,
                <<"on:">>, <<" ", " ", "workflow_call", ":">> >>,
   syntaxOk |-> TRUE, hasName |-> TRUE,
   name |-> <<"R","e","u","s","a","b","l","e"," ","L","i","n","t">>,
   on |-> [kind |-> "map", keys |-> <<"workflow_call">>,
           call |-> [kind |-> "map",
                     inputs |-> Mapping(<<"package-manager", "lint-check-command">>),
                     secrets |-> Mapping(<<"workflow-token">>),
                     outputs |-> Undefined]]]

FileDeploy ==
  [fileName |-> <<"d","e","p","l","o","y","-","p","r","o","d",".","y","m","l">>, readable |-> TRUE,
   lines |-> << <<"on:">>, <<" ", " ", "workflow_call", ":">> >>,
   syntaxOk |-> TRUE, hasName |-> FALSE, name |-> <<>>,
   on |-> [kind |-> "map", keys |-> <<"workflow_call">>, call |-> NullCall]]

FileUnit ==
  [fileName |-> <<"t","e","s","t","-","u","n","i","t",".","y","m","l">>, readable |-> TRUE,
   lines |-> << <<"name: Unit">>, <<"on: [", "push", ", ", "workflow_call", "]">> >>,
   syntaxOk |-> TRUE, hasName |-> TRUE, name |-> <<"U","n","i","t">>,
   on |-> [kind |-> "list", keys |-> <<"push", "workflow_call">>, call |-> NoCall]]

FileBroken ==
  [fileName |-> <<"s","c","a","n","-","d","e","p","s",".","y","a","m","l">>, readable |-> TRUE,
   lines |-> << <<"name: [">>, <<"on:">>, <<" ", " ", "workflow_call", ":">> >>,
   syntaxOk |-> FALSE, hasName |-> FALSE, name |-> <<>>,
   on |-> [kind |-> "absent", keys |-> <<>>, call |-> NoCall]]

FileLocked ==
  [fileName |-> <<"n","o","t","e","s",".","y","m","l">>, readable |-> FALSE,
   lines |-> << <<"name: Notes">>, <<"on: ", "push">> >>,
   syntaxOk |-> TRUE, hasName |-> TRUE, name |-> <<"N","o","t","e","s">>,
   on |-> [kind |-> "string", keys |-> <<"push">>, call |-> NoCall]]

FileHealth ==
  [fileName |-> <<"h","e","a","l","t","h",".","y","m","l">>, readable |-> TRUE,
   lines |-> << <<"#"," ","H","e","a","l","t","h">>, <<"name: Reusable.">> >>,
   syntaxOk |-> TRUE, hasName |-> TRUE,
   name |-> <<"R","e","u","s","a","b","l","e",".">>,
   on |-> [kind |-> "absent", keys |-> <<>>, call |-> NoCall]]

FileAudit ==
  [fileName |-> <<"a","u","d","i","t","-","x",".","y","m","l">>, readable |-> TRUE,
   lines |-> << <<"name: Audit">>, <<"on: ", "workflow_call">> >>,
   syntaxOk |-> TRUE, hasName |-> TRUE, name |-> <<"A","u","d","i","t">>,
   on |-> [kind |-> "string", keys |-> <<"workflow_call">>, call |-> NoCall]]

\* a file whose name starts with a capital letter
FileZip ==
  [fileName |-> <<"Z","i","p",".","y","m","l">>, readable |-> TRUE,
   lines |-> << <<"name: Zip">>, <<"on:">>, <<" ", " ", "workflow_call", ":">> >>,
   syntaxOk |-> TRUE, hasName |-> TRUE, name |-> <<"Z","i","p">>,
   on |-> [kind |-> "map", keys |-> <<"workflow_call">>, call |-> NullCall]]

\* a file whose name holds an extension before its end
FileDocs ==
  [fileName |-> <<"d","o","c",".","y","m","l","-","x",".","y","m","l">>,
   readable |-> TRUE,
   lines |-> << <<"name: Docs">>, <<"on:">>, <<" ", " ", "workflow_call", ":">> >>,
   syntaxOk |-> TRUE, hasName |-> TRUE, name |-> <<"D","o","c","s">>,
   on |-> [kind |-> "map", keys |-> <<"workflow_call">>, call |-> NullCall]]

\* the files named outside the lower-case prefix-stem.extension convention
OddFiles == <<FileZip, FileDocs>>

\* the definition files a directory is populated from; the repeated runs of
\* the generator are populated from the conventionally named ones
Files == <<FileFormat, FileLint, FileDeploy, FileUnit, FileBroken, FileLocked,
           FileHealth, FileAudit>> \o OddFiles
FileIds == 1..(Len(Files) - Len(OddFiles))

\* the composite-action directories a directory is populated from
ActionNames == <<"web-dependencies-setup", "cache-restore", "report-upload">>

FilePathOf(f) == WorkflowsDir \o Files[f].fileName
ActionPathOf(a) == ActionsDir \o <<ActionNames[a], "/">>

\* the raw text of a file: its lines joined by newlines
ContentOf(f) == Join(Files[f].lines, <<"\n">>)

\* the sequences without repetition, of length at most n, over a set
RECURSIVE Arrangements(_, _)
Arrangements(S, n) ==
  IF n = 0 THEN {<<>>}
  ELSE LET shorter == Arrangements(S, n - 1)
       IN  shorter \cup {Append(q, x) : q \in {r \in shorter : Len(r) = n - 1},
                                        x \in S}
Distinct(q) == \A a, b \in 1..Len(q) : a # b => q[a] # q[b]
Orderings(S, n) == {q \in Arrangements(S, n) : Distinct(q)}

(***************************************************************************)
(* workflow-scanner.ts                                                     *)
(***************************************************************************)
NoDescription == <<"N","o"," ","d","e","s","c","r","i","p","t","i","o","n"," ","p","r","o","v","i","d","e","d",".">>

\* a variant in which a comment line with an empty body ends the scan
RECURSIVE DescriptionFromStoppingAtEmpty(_, _)
DescriptionFromStoppingAtEmpty(lines, k) ==
  IF k > Len(lines) THEN NoDescription
  ELSE LET trimmed == Trim(lines[k])
       IN  IF trimmed # <<>> /\ ~StartsWith(trimmed, <<"#">>) THEN NoDescription
           ELSE IF StartsWith(trimmed, <<"#">>)
                THEN (IF Trim(Tail(trimmed)) # <<>> THEN Trim(Tail(trimmed))
                      ELSE NoDescription)
                ELSE DescriptionFromStoppingAtEmpty(lines, k + 1)

\* the for loop of getWorkflowDescription, from line k on
RECURSIVE DescriptionFrom(_, _)
DescriptionFrom(lines, k) ==
  IF k > Len(lines) THEN NoDescription
  ELSE LET trimmed == Trim(lines[k])
       IN  IF trimmed # <<>> /\ ~StartsWith(trimmed, <<"#">>) THEN NoDescription
           ELSE IF StartsWith(trimmed, <<"#">>) /\ Trim(Tail(trimmed)) # <<>>
                THEN Trim(Tail(trimmed))
                ELSE DescriptionFrom(lines, k + 1)

getWorkflowDescription(lines) == DescriptionFrom(lines, 1)


\* title.replace(/Reusable[ .]/i, ''): the first match is removed
ReusableToken == <<"r","e","u","s","a","b","l","e">>
StripReusable(title) ==
  LET hits == {k \in 0..(Len(title) - 9) :
                 /\ ToLower(SubSeq(title, k + 1, k + 8)) = ReusableToken
                 /\ title[k + 9] \in {" ", "."}}
  IN  IF hits = {} THEN title
      ELSE LET k == CHOOSE h \in hits : \A j \in hits : h <= j
           IN  SubSeq(title, 1, k) \o SubSeq(title, k + 10, Len(title))

\* workflow.name.replace(/Reusable[ .]/i, '') || path.basename(filePath,
\* path.extname(filePath)), for a title that is a string
WorkflowName(title, filePath) ==
  LET stripped == StripReusable(title)
  IN  IF stripped # <<>> THEN stripped
      ELSE BasenameExt(filePath, Extname(filePath))

\* workflow.on?.workflow_call: defined only for a mapping that has the key
CallOf(on) == IF on.kind = "map" THEN on.call ELSE NoCall

\* workflow.on && 'workflow_call' in workflow.on, for the shapes on which the
\* `in` operator is defined (it throws on a string)
IsReusableOf(on) ==
  IF on.kind = "absent" THEN "undefined"
  ELSE IF on.kind = "list" THEN "false"
  ELSE IF \E k \in 1..Len(on.keys) : on.keys[k] = "workflow_call" THEN "true"
  ELSE "false"

\* does the body of the try block throw for file f
ScanThrows(f) ==
  \/ ~Files[f].readable                        \* readFile rejects
  \/ ~Files[f].syntaxOk                        \* parse throws
  \/ ~Files[f].hasName                         \* undefined.replace
  \/ Files[f].on.kind = "string"               \* 'workflow_call' in "text"

\* the record the try block builds for file f
WorkflowInfo(f) ==
  LET filePath == FilePathOf(f)
  IN  [name |-> WorkflowName(Files[f].name, filePath),
       description |-> getWorkflowDescription(Files[f].lines),
       filePath |-> filePath,
       fileName |-> Basename(filePath),
       inputs |-> CallOf(Files[f].on).inputs,
       secrets |-> CallOf(Files[f].on).secrets,
       outputs |-> CallOf(Files[f].on).outputs,
       isReusable |-> IsReusableOf(Files[f].on)]


(***************************************************************************)
(* The README as text.  Offsets are counted in characters as the source    *)
(* counts them: a literal token is as long as its text, every other token  *)
(* is one character (glyphs and the code fence are written as bracketed    *)
(* names).  "<tail>" stands for what is left of a literal token  *)
(* that a character offset cut in two, "<head>" for what precedes the cut. *)
(***************************************************************************)
BeginTable == "<!-- BEGIN: Available Workflows Section -->"
EndTable == "<!-- END: Available Workflows Section -->"
BeginTree == "<!-- BEGIN: Workflows Folder Structure Section -->"
EndTree == "<!-- END: Workflows Folder Structure Section -->"
Markers == {BeginTable, EndTable, BeginTree, EndTree}

TokenLength(tok) == Len(tok)

\* text.length, summed over the two halves of the text
RECURSIVE CharLength(_)
CharLength(text) ==
  IF text = <<>> THEN 0
  ELSE IF Len(text) = 1 THEN TokenLength(text[1])
  ELSE CharLength(SubSeq(text, 1, Len(text) \div 2))
         + CharLength(SubSeq(text, Len(text) \div 2 + 1, Len(text)))

\* existingContent.indexOf(marker), in characters
CharIndexOf(text, marker) ==
  LET k == IndexOf(text, <<marker>>)
  IN  IF k = -1 THEN -1 ELSE CharLength(SubSeq(text, 1, k))

\* the number of leading tokens of text that lie wholly within its first n
\* characters: the greatest k in lo..hi whose first k tokens do (lo does)
RECURSIVE WholeTokensIn(_, _, _, _)
WholeTokensIn(text, n, lo, hi) ==
  IF lo >= hi THEN lo
  ELSE IF CharLength(SubSeq(text, 1, (lo + hi + 1) \div 2)) <= n
       THEN WholeTokensIn(text, n, (lo + hi + 1) \div 2, hi)
       ELSE WholeTokensIn(text, n, lo, (lo + hi + 1) \div 2 - 1)

WholeTokens(text, n) == WholeTokensIn(text, n, 0, Len(text))

\* text.substring(n) for a character offset n
DropChars(text, n) ==
  IF n <= 0 THEN text
  ELSE LET k == WholeTokens(text, n)
       IN  (IF k < Len(text) /\ CharLength(SubSeq(text, 1, k)) < n
            THEN <<"<tail>">> \o SubSeq(text, k + 2, Len(text))
            ELSE SubSeq(text, k + 1, Len(text)))

\* text.substring(0, n) for a character offset n
TakeChars(text, n) ==
  IF n <= 0 THEN <<>>
  ELSE LET k == WholeTokens(text, n)
       IN  SubSeq(text, 1, k)
             \o (IF k < Len(text) /\ CharLength(SubSeq(text, 1, k)) < n
                 THEN <<"<head>">> ELSE <<>>)

(***************************************************************************)
(* doc-generator: the capability table                                     *)
(***************************************************************************)
\* workflows.filter((w) => w.isReusable): only the boolean true is truthy
\* among the values the scanner stores
IsTruthy(v) == v = "true"
\* a variant without the filter
ReusableWorkflowsUnfiltered(ws) == ws
ReusableWorkflows(ws) == SelectSeq(ws, LAMBDA w : IsTruthy(w.isReusable))

\* a variant that puts a new category in front of the ones already there
AddToCategoriesNewestFirst(map, workflow) ==
  LET category == categorizeWorkflow(workflow)
      at == {k \in 1..Len(map) : map[k].category = category}
  IN  IF at # {}
      THEN [map EXCEPT ![CHOOSE k \in at : TRUE].workflows = Append(@, workflow)]
      ELSE <<[category |-> category, icon |-> IconOf(category),
              workflows |-> <<workflow>>]>> \o map

\* one iteration of the grouping loop: push onto the entry of the category,
\* or set a new entry at the end of the Map
AddToCategories(map, workflow) ==
  LET category == categorizeWorkflow(workflow)
      at == {k \in 1..Len(map) : map[k].category = category}
  IN  IF at # {}
      THEN [map EXCEPT ![CHOOSE k \in at : TRUE].workflows = Append(@, workflow)]
      ELSE Append(map, [category |-> category, icon |-> IconOf(category),
                        workflows |-> <<workflow>>])

RECURSIVE GroupFrom(_, _, _)
GroupFrom(map, ws, k) ==
  IF k > Len(ws) THEN map ELSE GroupFrom(AddToCategories(map, ws[k]), ws, k + 1)

CategoriesMap(ws) == GroupFrom(<<>>, ReusableWorkflows(ws), 1)

AutoNotice == <<"<!-- AUTO-GENERATED CONTENT - DO NOT EDIT MANUALLY -->", "\n",
  "<!-- This section is automatically updated by the documentation generator -->",
  "\n", "\n">>
TableCallout == <<"> [zap] **Auto-Generated** [zap]", "\n", "> ", "\n",
  "> This section is automatically updated whenever workflows are added, modified, or removed.",
  "\n",
  "> The documentation reflects the current state of all reusable workflows in this repository.",
  "\n", "\n">>
TableHead == <<"| Workflow Name | Description | Inputs | Outputs | Secrets |", "\n",
  "|:-------------|:------------|:-------|:--------|:--------|", "\n">>
NoWorkflowsFound == <<"No reusable workflows found.", "\n">>
RowOpen == "| **["

\* filePath.replace(/\\/g, '/')
ForwardSlashes(path) == [k \in 1..Len(path) |-> IF path[k] = "\\" THEN "/" ELSE path[k]]

DescriptionCell(workflow) ==
  IF workflow.description # <<>> /\ workflow.description # NoDescription
  THEN wrapText(workflow.description, 50)
  ELSE <<"*No description provided*">>

TableRow(workflow) ==
  <<RowOpen>> \o wrapText(workflow.name, 25) \o <<"](./">>
    \o ForwardSlashes(workflow.filePath) \o <<")** | ">>
    \o DescriptionCell(workflow) \o <<" | ">>
    \o formatStackedWorkflowDetails(workflow.inputs) \o <<" | ">>
    \o formatStackedWorkflowDetails(workflow.outputs) \o <<" | ">>
    \o formatStackedWorkflowDetails(workflow.secrets) \o <<" |", "\n">>

CategoryTable(entry) ==
  <<"### ", entry.icon, " ", entry.category, "\n", "\n">> \o TableHead
    \o Flatten([k \in 1..Len(entry.workflows) |-> TableRow(entry.workflows[k])])
    \o <<"\n">>

WorkflowsSection(map) ==
  IF Len(map) = 0 THEN NoWorkflowsFound
  ELSE AutoNotice \o TableCallout
         \o Flatten([k \in 1..Len(map) |-> CategoryTable(map[k])])

(***************************************************************************)
(* doc-generator: the folder tree.  The tree is kept as its lines; the     *)
(* text of `structure` is the concatenation of the rendered lines.         *)
(***************************************************************************)
Tee == "|--"    \* the interior connector glyph
Ell == "L--"    \* the terminal connector glyph

Line(kind, prefix, text, note, category) ==
  [kind |-> kind, prefix |-> prefix, text |-> text, note |-> note,
   category |-> category]

RenderLine(l) ==
  CASE l.kind = "open" -> <<"<fence>", "\n", ".github/", "\n">>
    [] l.kind = "workflowsDir" ->
         <<Tee, " workflows/          # GitHub Actions Workflows", "\n">>
    [] l.kind = "gap" -> <<"|   |", "\n">>
    [] l.kind = "header" ->
         <<"|   ", l.prefix, " # ", IconOf(l.category), " ", l.category, "\n">>
    [] l.kind = "file" -> <<"|   ", l.prefix, " ">> \o l.text \o <<l.note, "\n">>
    [] l.kind = "actionsDir" ->
         <<Ell, " actions/            # Custom Composite Actions", "\n">>
    [] l.kind = "action" -> <<"    ", l.prefix, " ">> \o l.text \o <<"/", "\n">>
    [] l.kind = "actionChild" -> <<"    ", l.prefix, "   ", Ell, " action.yml", "\n">>
    [] OTHER -> <<"<fence>">>

RenderLines(ls) == Flatten([k \in 1..Len(ls) |-> RenderLine(ls[k])])

\* a.localeCompare(b) on the characters file names are written with: first by
\* letter regardless of case (punctuation before digits before letters), then
\* lower case before upper case
CollationOrder == <<"_", "-", ".", "0", "1", "2", "3", "4", "5", "6", "7", "8", "9">>
                    \o LowerAlpha
Rank(c) ==
  LET at == {k \in 1..Len(CollationOrder) : CollationOrder[k] = ToLowerChar(c)}
  IN  IF at = {} THEN 0 ELSE CHOOSE k \in at : TRUE
CaseRank(c) == IF ToLowerChar(c) = c THEN 0 ELSE 1

\* the comparison key of a character at one of the two levels
LevelKey(c, byCase) == IF byCase THEN CaseRank(c) ELSE Rank(c)

RECURSIVE CompareBy(_, _, _, _)
CompareBy(byCase, a, b, k) ==
  IF k > Len(a) /\ k > Len(b) THEN 0
  ELSE IF k > Len(a) THEN -1
  ELSE IF k > Len(b) THEN 1
  ELSE IF LevelKey(a[k], byCase) < LevelKey(b[k], byCase) THEN -1
  ELSE IF LevelKey(a[k], byCase) > LevelKey(b[k], byCase) THEN 1
  ELSE CompareBy(byCase, a, b, k + 1)

LocaleCompare(a, b) ==
  IF CompareBy(FALSE, a, b, 1) # 0 THEN CompareBy(FALSE, a, b, 1)
  ELSE CompareBy(TRUE, a, b, 1)

\* Array.prototype.sort with the fileName comparator (a stable sort)
RECURSIVE InsertSorted(_, _)
InsertSorted(sorted, f) ==
  IF sorted = <<>> THEN <<f>>
  ELSE IF LocaleCompare(Files[Head(sorted)].fileName, Files[f].fileName) <= 0
       THEN <<Head(sorted)>> \o InsertSorted(Tail(sorted), f)
       ELSE <<f>> \o sorted

RECURSIVE SortFrom(_, _, _)
SortFrom(sorted, fs, k) ==
  IF k > Len(fs) THEN sorted ELSE SortFrom(InsertSorted(sorted, fs[k]), fs, k + 1)

SortedWorkflowFiles(fs) == SortFrom(<<>>, fs, 1)

\* a variant whose catch block annotates the file as internal
TypeOfDefaultingInternal(f) ==
  IF Files[f].readable /\ Includes(ContentOf(f), <<"workflow_call">>)
  THEN " (reusable)"
  ELSE " (internal)"

\* the annotation of a file line: the try block around the re-read
TypeOf(f) ==
  IF ~Files[f].readable THEN ""
  ELSE IF Includes(ContentOf(f), <<"workflow_call">>) THEN " (reusable)"
  ELSE " (internal)"

\* the lines one iteration of the workflow-file loop appends (i is 0-based)
FileLines(sorted, i, nActions, lastCategory) ==
  LET fileName == Basename(FilePathOf(sorted[i + 1]))
      category == getCategoryByFilename(fileName)
      hasMoreFiles == i < Len(sorted) - 1 \/ nActions > 0
      isLastFile == i = Len(sorted) - 1 /\ nActions = 0
  IN  (IF category # lastCategory
       THEN (IF i > 0 THEN <<Line("gap", "", <<>>, "", "")>> ELSE <<>>)
              \o <<Line("header", IF hasMoreFiles THEN Tee ELSE Ell, <<>>, "",
                        category)>>
       ELSE <<>>)
      \o <<Line("file", IF isLastFile THEN Ell ELSE Tee, fileName,
                TypeOf(sorted[i + 1]), category)>>

\* a variant that draws every action directory as the last one
ActionLinesAllTerminal(dirs) ==
  (IF Len(dirs) > 0
   THEN <<Line("actionsDir", "", <<>>, "", "")>>
          \o Flatten([k \in 1..Len(dirs) |->
               <<Line("action", Ell, Basename(dirs[k]), "", ""),
                 Line("actionChild", " ", <<>>, "", "")>>])
   ELSE <<>>)
  \o <<Line("close", "", <<>>, "", "")>>

\* the lines of the actions section followed by the closing fence
ActionLines(dirs) ==
  (IF Len(dirs) > 0
   THEN <<Line("actionsDir", "", <<>>, "", "")>>
          \o Flatten([k \in 1..Len(dirs) |->
               <<Line("action", IF k = Len(dirs) THEN Ell ELSE Tee,
                      Basename(dirs[k]), "", ""),
                 Line("actionChild", IF k = Len(dirs) THEN " " ELSE "|",
                      <<>>, "", "")>>])
   ELSE <<>>)
  \o <<Line("close", "", <<>>, "", "")>>

TreeCallout == <<"> [zap] **Auto-Generated** [zap]", "\n", "> ", "\n",
  "> This folder structure is automatically scanned and updated to reflect the current repository layout.",
  "\n",
  "> It shows all workflows and actions with their types (reusable/internal).",
  "\n", "\n">>

FolderStructureSection(ls) == AutoNotice \o TreeCallout \o RenderLines(ls)

(***************************************************************************)
(* doc-generator: the splice                                               *)
(***************************************************************************)
TableHeading == "## [package] Available Workflows"
TreeHeading == "## [construction] Workflows Folder Structure"

BeforeWorkflows(existing) == TakeChars(existing, CharIndexOf(existing, BeginTable))

\* a variant that keeps the text from the end marker on, the marker included
AfterFolderStructureFromMarker(existing) ==
  DropChars(existing, CharIndexOf(existing, EndTree))

AfterFolderStructure(existing) ==
  DropChars(existing, CharIndexOf(existing, EndTree) + TokenLength(EndTree))

NewContent(existing, workflowsSection, folderStructureSection) ==
  BeforeWorkflows(existing)
    \o <<BeginTable, "\n", TableHeading, "\n", "\n">>
    \o workflowsSection
    \o <<EndTable, "\n", "\n", BeginTree, "\n", TreeHeading, "\n", "\n">>
    \o folderStructureSection
    \o <<"\n", EndTree, "\n", "\n">>
    \o AfterFolderStructure(existing)


(***************************************************************************)
(* State                                                                   *)
(***************************************************************************)
VARIABLES
  fsFiles,          \* .github/workflows: the file ids, in the order glob yields
  fsActions,        \* .github/actions: the directory ids, in the order glob yields
  readme,           \* README.md on disk: [exists, text]
  pc,               \* the statement the run is at
  run,              \* the number of the current run
  workflowFiles,    \* scanWorkflows: the glob result
  idx,              \* the index of the loop in progress (1-based)
  workflows,        \* scanWorkflows: the records pushed so far
  warnings,         \* the files console.warn was called for, in order
  existingContent,  \* generateDocumentation: the text read from README.md
  categoriesMap,    \* generateDocumentation: the Map, in insertion order
  treeFiles,        \* generateFolderStructure: workflowFiles, then sorted
  actionDirs,       \* generateFolderStructure: the glob result
  lines,            \* generateFolderStructure: the lines of `structure`
  lastCategory,     \* generateFolderStructure: lastCategory
  exitCode,         \* "running", or the status the process ended with
  successLogged,    \* the final success message was printed
  events,           \* the file-system calls of this run that have returned
  history,          \* one entry per finished run: README before and after
  op,               \* function under test: the function applied, or "none"
  arg,              \* function under test: its argument
  result            \* function under test: its result

vars == <<fsFiles, fsActions, readme, pc, run, workflowFiles, idx, workflows,
          warnings, existingContent, categoriesMap, treeFiles, actionDirs,
          lines, lastCategory, exitCode, successLogged, events, history,
          op, arg, result>>

fsVars == <<fsFiles, fsActions>>
scanVars == <<workflowFiles, workflows, warnings>>
genVars == <<existingContent, categoriesMap>>
treeVars == <<treeFiles, actionDirs, lines, lastCategory>>
fnVars == <<op, arg, result>>


\* the variables of the generator, which a function under test leaves alone
progVars == <<fsVars, readme, pc, run, idx, scanVars, genVars, treeVars,
              exitCode, successLogged, events, history>>

(***************************************************************************)
(* Initial states: a populated repository and a README.                    *)
(***************************************************************************)
Stale == <<"o">>

\* a README with hand-written text before, between and after the two regions;
\* the first begin marker or the last end marker may be missing
ReadmeText(before, between, after, hasBegin, hasEnd) ==
  before \o (IF hasBegin THEN <<BeginTable>> ELSE <<>>) \o Stale \o <<EndTable>>
    \o between \o <<BeginTree>> \o Stale
    \o (IF hasEnd THEN <<EndTree>> ELSE <<>>) \o after

\* the READMEs a run may find: the two regions adjacent or apart, an outer
\* marker missing, or no README.md at all
Readmes ==
  {[exists |-> TRUE, text |-> ReadmeText(<<>>, <<>>, <<>>, TRUE, TRUE)],
   [exists |-> TRUE, text |-> ReadmeText(<<"p">>, <<"m">>, <<"a">>, TRUE, TRUE)],
   [exists |-> TRUE, text |-> ReadmeText(<<"p">>, <<"m">>, <<"a">>, FALSE, TRUE)],
   [exists |-> TRUE, text |-> ReadmeText(<<"p">>, <<"m">>, <<"a">>, TRUE, FALSE)],
   [exists |-> FALSE, text |-> <<>>]}

Locals ==
  /\ workflowFiles = <<>>
  /\ idx = 1
  /\ workflows = <<>>
  /\ warnings = <<>>
  /\ existingContent = <<>>
  /\ categoriesMap = <<>>
  /\ treeFiles = <<>>
  /\ actionDirs = <<>>
  /\ lines = <<>>
  /\ lastCategory = ""
  /\ exitCode = "running"
  /\ successLogged = FALSE
  /\ events = <<>>

Init ==
  /\ fsFiles \in Orderings(FileIds, MaxFiles)
  /\ fsActions \in {[k \in 1..n |-> k] : n \in 0..Min(MaxActions, Len(ActionNames))}
  /\ readme \in Readmes
  /\ pc = "scanGlob"
  /\ run = 1
  /\ Locals
  /\ history = <<>>
  /\ op = "none" /\ arg = <<>> /\ result = ""

\* the generator is not running: a function is called on its own
Idle ==
  /\ fsFiles = <<>>
  /\ fsActions = <<>>
  /\ readme = [exists |-> FALSE, text |-> <<>>]
  /\ pc = "off"
  /\ run = 1
  /\ Locals
  /\ history = <<>>

(***************************************************************************)
(* generate-docs.ts: the catch block of the entry point                    *)
(***************************************************************************)
\* a variant that swallows the error: the process ends with status 0
MainCatchExitZero ==
  /\ pc' = "failed"
  /\ exitCode' = "0"
  /\ history' = Append(history, [ok |-> FALSE, before |-> readme, after |-> readme])
  /\ UNCHANGED successLogged

\* console.error(...); process.exit(1)
MainCatch ==
  /\ pc' = "failed"
  /\ exitCode' = "1"
  /\ history' = Append(history, [ok |-> FALSE, before |-> readme, after |-> readme])
  /\ UNCHANGED successLogged

(***************************************************************************)
(* scanWorkflows                                                           *)
(***************************************************************************)
\* await glob('.github/workflows/*.{yml,yaml}'): resolves or rejects
ScanGlob ==
  /\ pc = "scanGlob"
  /\ events' = Append(events, "scan:glob")
  /\ \/ /\ workflowFiles' = fsFiles
        /\ idx' = 1
        /\ pc' = "scanLoop"
        /\ UNCHANGED <<exitCode, successLogged, history>>
     \/ /\ MainCatch
        /\ UNCHANGED <<workflowFiles, idx>>
  /\ UNCHANGED <<fsVars, readme, run, workflows, warnings, genVars, treeVars, fnVars>>

\* one iteration of the for loop: the try block, or its catch
ScanFile ==
  /\ pc = "scanLoop"
  /\ idx <= Len(workflowFiles)
  /\ events' = Append(events, "scan:read")
  /\ IF ScanThrows(workflowFiles[idx])
     THEN /\ warnings' = Append(warnings, workflowFiles[idx])
          /\ UNCHANGED workflows
     ELSE /\ workflows' = Append(workflows, WorkflowInfo(workflowFiles[idx]))
          /\ UNCHANGED warnings
  /\ idx' = idx + 1
  /\ UNCHANGED <<fsVars, readme, pc, run, workflowFiles, genVars, treeVars,
                 exitCode, successLogged, history, fnVars>>

\* return workflows; the entry point calls generateDocumentation(workflows)
ScanReturn ==
  /\ pc = "scanLoop"
  /\ idx > Len(workflowFiles)
  /\ pc' = "genRead"
  /\ UNCHANGED <<fsVars, readme, run, idx, scanVars, genVars, treeVars,
                 exitCode, successLogged, events, history, fnVars>>

(***************************************************************************)
(* generateDocumentation and generateFolderStructure                       *)
(***************************************************************************)
\* the try block around readFile('README.md'): '' when the read rejects
GenReadReadme ==
  /\ pc = "genRead"
  /\ existingContent' = IF readme.exists THEN readme.text ELSE <<>>
  /\ events' = Append(events, "gen:readme")
  /\ pc' = "genTable"
  /\ UNCHANGED <<fsVars, readme, run, idx, scanVars, categoriesMap, treeVars,
                 exitCode, successLogged, history, fnVars>>

\* a variant that writes the table into README.md before the tree is built
GenBuildTableWritingFirst ==
  /\ pc = "genTable"
  /\ categoriesMap' = CategoriesMap(workflows)
  /\ readme' = [exists |-> TRUE,
                text |-> NewContent(existingContent,
                                    WorkflowsSection(CategoriesMap(workflows)), <<>>)]
  /\ events' = Append(events, "gen:write")
  /\ pc' = "treeGlobWorkflows"
  /\ UNCHANGED <<fsVars, run, idx, scanVars, existingContent, treeVars,
                 exitCode, successLogged, history, fnVars>>

\* the filter and the grouping loop
GenBuildTable ==
  /\ pc = "genTable"
  /\ categoriesMap' = CategoriesMap(workflows)
  /\ pc' = "treeGlobWorkflows"
  /\ UNCHANGED <<fsVars, readme, run, idx, scanVars, existingContent, treeVars,
                 exitCode, successLogged, events, history, fnVars>>

\* generateFolderStructure, the first glob
TreeGlobWorkflows ==
  /\ pc = "treeGlobWorkflows"
  /\ events' = Append(events, "tree:globWorkflows")
  /\ \/ /\ treeFiles' = fsFiles
        /\ pc' = "treeGlobActions"
        /\ UNCHANGED <<exitCode, successLogged, history>>
     \/ /\ MainCatch
        /\ UNCHANGED treeFiles
  /\ UNCHANGED <<fsVars, readme, run, idx, scanVars, genVars, actionDirs, lines,
                 lastCategory, fnVars>>

\* the second glob, then the head of the tree and the sort
TreeGlobActions ==
  /\ pc = "treeGlobActions"
  /\ events' = Append(events, "tree:globActions")
  /\ \/ /\ actionDirs' = [k \in 1..Len(fsActions) |-> ActionPathOf(fsActions[k])]
        /\ lines' = <<Line("open", "", <<>>, "", "")>>
                      \o (IF Len(treeFiles) > 0
                          THEN <<Line("workflowsDir", "", <<>>, "", "")>>
                          ELSE <<>>)
        /\ treeFiles' = SortedWorkflowFiles(treeFiles)
        /\ lastCategory' = ""
        /\ idx' = 1
        /\ pc' = "treeLoop"
        /\ UNCHANGED <<exitCode, successLogged, history>>
     \/ /\ MainCatch
        /\ UNCHANGED <<treeVars, idx>>
  /\ UNCHANGED <<fsVars, readme, run, scanVars, genVars, fnVars>>

\* one iteration of the loop over the sorted workflow files
TreeFile ==
  /\ pc = "treeLoop"
  /\ idx <= Len(treeFiles)
  /\ events' = Append(events, "tree:read")
  /\ lines' = lines \o FileLines(treeFiles, idx - 1, Len(actionDirs), lastCategory)
  /\ lastCategory' = getCategoryByFilename(Basename(FilePathOf(treeFiles[idx])))
  /\ idx' = idx + 1
  /\ UNCHANGED <<fsVars, readme, pc, run, scanVars, genVars, treeFiles, actionDirs,
                 exitCode, successLogged, history, fnVars>>

\* the actions section and the closing fence; generateFolderStructure returns
TreeActions ==
  /\ pc = "treeLoop"
  /\ idx > Len(treeFiles)
  /\ lines' = lines \o ActionLines(actionDirs)
  /\ pc' = "write"
  /\ UNCHANGED <<fsVars, readme, run, idx, scanVars, genVars, treeFiles, actionDirs,
                 lastCategory, exitCode, successLogged, events, history, fnVars>>

\* the splice and writeFile('README.md'); a rejected write (the file cannot
\* be opened for writing) leaves the file as it was
GenWrite ==
  /\ pc = "write"
  /\ events' = Append(events, "gen:write")
  /\ \/ /\ readme' = [exists |-> TRUE,
                      text |-> NewContent(existingContent,
                                          WorkflowsSection(categoriesMap),
                                          FolderStructureSection(lines))]
        /\ pc' = "done"
        /\ exitCode' = "0"
        /\ successLogged' = TRUE
        /\ history' = Append(history, [ok |-> TRUE, before |-> readme,
                                       after |-> readme'])
     \/ /\ UNCHANGED readme
        /\ MainCatch
  /\ UNCHANGED <<fsVars, run, idx, scanVars, genVars, treeVars, fnVars>>

\* the generator is started again on the unchanged repository (a failed run
\* has changed nothing, so the run after it would repeat it)
NextRun ==
  /\ pc = "done"
  /\ run < MaxRuns
  /\ run' = run + 1
  /\ pc' = "scanGlob"
  /\ workflowFiles' = <<>>
  /\ idx' = 1
  /\ workflows' = <<>>
  /\ warnings' = <<>>
  /\ existingContent' = <<>>
  /\ categoriesMap' = <<>>
  /\ treeFiles' = <<>>
  /\ actionDirs' = <<>>
  /\ lines' = <<>>
  /\ lastCategory' = ""
  /\ exitCode' = "running"
  /\ successLogged' = FALSE
  /\ events' = <<>>
  /\ UNCHANGED <<fsVars, readme, history, fnVars>>

Next ==
  \/ ScanGlob
  \/ ScanFile
  \/ ScanReturn
  \/ GenReadReadme
  \/ GenBuildTable
  \/ TreeGlobWorkflows
  \/ TreeGlobActions
  \/ TreeFile
  \/ TreeActions
  \/ GenWrite
  \/ NextRun

Spec == Init /\ [][Next]_vars


(***************************************************************************)
(* Classification as a function under test: a file name is drawn from a    *)
(* bounded set and one of the two entry points is applied to it.           *)
(***************************************************************************)
AllPrefixes ==
  UNION {{CATEGORY_MAPPINGS[k].prefixes[j] : j \in 1..Len(CATEGORY_MAPPINGS[k].prefixes)} :
           k \in 1..Len(CATEGORY_MAPPINGS)}
Stems ==
  AllPrefixes \cup {SubSeq(p, 1, Len(p) - 1) : p \in AllPrefixes}
    \cup {<<>>, <<"m","i","s","c">>}
TailChars == {"x", "_", "-"}
RECURSIVE Words(_, _)
Words(S, n) ==
  IF n = 0 THEN {<<>>}
  ELSE Words(S, n - 1) \cup {Append(w, c) : w \in Words(S, n - 1), c \in S}
ClassifyInputs ==
  {lead \o stem \o tail \o ext :
     lead \in {<<>>, <<"x">>}, stem \in Stems, tail \in Words(TailChars, MaxTail),
     ext \in {<<>>, <<".","y","m","l">>}}

InitClassify ==
  /\ fsFiles = <<>>
  /\ fsActions = <<>>
  /\ readme = [exists |-> FALSE, text |-> <<>>]
  /\ pc = "off"
  /\ run = 1
  /\ Locals
  /\ history = <<>>
  /\ op = "none"
  /\ arg \in ClassifyInputs
  /\ result = ""

\* getCategoryByFilename(fileName), as the folder tree calls it
ApplyGetCategoryByFilename ==
  /\ pc = "off" /\ op = "none"
  /\ op' = "getCategoryByFilename"
  /\ result' = getCategoryByFilename(arg)
  /\ UNCHANGED <<fsVars, readme, pc, run, idx, scanVars, genVars, treeVars,
                 exitCode, successLogged, events, history, arg>>

\* categorizeWorkflow(workflow), as the capability table calls it
ApplyCategorizeWorkflow ==
  /\ pc = "off" /\ op = "none"
  /\ op' = "categorizeWorkflow"
  /\ result' = categorizeWorkflow([filePath |-> WorkflowsDir \o arg])
  /\ UNCHANGED <<fsVars, readme, pc, run, idx, scanVars, genVars, treeVars,
                 exitCode, successLogged, events, history, arg>>

NextClassify == ApplyGetCategoryByFilename \/ ApplyCategorizeWorkflow

SpecClassify == InitClassify /\ [][NextClassify]_vars


(***************************************************************************)
(* categorizeWorkflow as a function under test: a record with a file path  *)
(* and a display name is drawn from fixed sets and classified as the       *)
(* capability table classifies it.                                         *)
(***************************************************************************)
InitCategorize ==
  /\ Idle
  /\ op = "none"
  /\ arg \in {[filePath |-> WorkflowsDir \o f, name |-> n] :
               f \in
                 {<<"h","e","a","l","t","h",".","y","m","l">>,
                  <<"c","i",".","y","m","l">>,
                  <<"t","e","s","t","-","u","n","i","t",".","y","m","l">>,
                  <<"_","i","n","t","e","r","n","a","l",".","y","m","l">>,
                  <<"r","u","n","n","e","r",".","y","a","m","l">>,
                  <<"q","u","a","l","i","t","y","-","l","i","n","t",".","y","m","l">>,
                  <<"l","i","n","t",".","y","m","l">>,
                  <<"t","e","s","t","s",".","y","m","l">>},
               n \in
                 {<<"U","n","i","t"," ","T","e","s","t","s">>,
                  <<"L","i","n","t">>,
                  <<"D","e","p","l","o","y"," ","D","o","c","s">>,
                  <<"S","e","c","u","r","i","t","y"," ","S","c","a","n">>,
                  <<"S","e","t","u","p">>,
                  <<"S","l","a","c","k"," ","N","o","t","i","f","y">>,
                  <<"H","e","a","l","t","h"," ","C","h","e","c","k">>,
                  <<"C","I">>,
                  <<"E","2","E">>,
                  <<>>}}
  /\ result = ""

\* categorizeWorkflow(workflow) in the grouping loop
ApplyCategorizeRecord ==
  /\ pc = "off" /\ op = "none"
  /\ op' = "categorizeWorkflow"
  /\ result' = categorizeWorkflow(arg)
  /\ UNCHANGED <<progVars, arg>>

SpecCategorize == InitCategorize /\ [][ApplyCategorizeRecord]_vars


(***************************************************************************)
(* wrapText as a function under test: a text over a letter and the space,  *)
(* and a width, are drawn from bounded sets.                               *)
(***************************************************************************)
InitWrap ==
  /\ Idle
  /\ op = "none"
  /\ arg \in {[text |-> t, maxLength |-> n] :
               t \in Words({"a", " "}, MaxText), n \in 1..MaxWidth}
  /\ result = ""

\* wrapText(workflow.name, 25) and wrapText(workflow.description, 50)
ApplyWrapText ==
  /\ pc = "off" /\ op = "none"
  /\ op' = "wrapText"
  /\ result' = wrapText(arg.text, arg.maxLength)
  /\ UNCHANGED <<progVars, arg>>

SpecWrap == InitWrap /\ [][ApplyWrapText]_vars


(***************************************************************************)
(* getWorkflowDescription as a function under test: a raw text is made of  *)
(* a bounded number of lines, each of one of a few shapes (blank, comment  *)
(* with or without a body, other content).                                 *)
(***************************************************************************)
InitDescription ==
  /\ Idle
  /\ op = "none"
  /\ arg \in {Join(ls, <<"\n">>) :
               ls \in Words({<<>>, <<" ">>, <<"#">>, <<" ", "#", " ">>, <<"#", "A">>,
                             <<" ", "#", " ", "B", " ", "\r">>, <<"x">>,
                             <<"x", "#", "C">>}, MaxLines)}
  /\ result = ""

\* getWorkflowDescription(content) in scanWorkflows
ApplyGetWorkflowDescription ==
  /\ pc = "off" /\ op = "none"
  /\ op' = "getWorkflowDescription"
  /\ result' = getWorkflowDescription(SplitOn(arg, "\n"))
  /\ UNCHANGED <<progVars, arg>>

SpecDescription == InitDescription /\ [][ApplyGetWorkflowDescription]_vars


(***************************************************************************)
(* The display name as a function under test: a declared title is built    *)
(* from an optional lead, a spelling of the qualifier word, a separator    *)
(* and a rest; the file is one of two.                                     *)
(***************************************************************************)
InitName ==
  /\ Idle
  /\ op = "none"
  /\ arg \in {[title |-> lead \o token \o sep \o rest,
                filePath |-> WorkflowsDir \o f] :
               lead \in {<<>>, <<"M","y"," ">>},
               token \in {<<"R","e","u","s","a","b","l","e">>,
                          <<"r","e","u","s","a","b","l","e">>,
                          <<"R","E","U","S","A","B","L","E">>,
                          <<"U","s","a","b","l","e">>},
               sep \in {<<>>, <<" ">>, <<".">>, <<"-">>},
               rest \in {<<>>, <<"L","i","n","t">>,
                         <<"R","e","u","s","a","b","l","e",".","x">>},
               f \in {<<"q","u","a","l","i","t","y","-","l","i","n","t",".","y","m","l">>,
                      <<"d","e","p","l","o","y",".","p","r","o","d",".","y","a","m","l">>}}
  /\ result = ""

\* the name field of workflowInfo in scanWorkflows
ApplyWorkflowName ==
  /\ pc = "off" /\ op = "none"
  /\ op' = "workflowName"
  /\ result' = WorkflowName(arg.title, arg.filePath)
  /\ UNCHANGED <<progVars, arg>>

SpecName == InitName /\ [][ApplyWorkflowName]_vars


(***************************************************************************)
(* The grouping and rendering of the capability table as a function under  *)
(* test: the records are a sequence without repetition over a fixed pool   *)
(* (several categories, reusable or not), in any order.                    *)
(***************************************************************************)
TableRecord(fileName, name, isReusable) ==
  [name |-> name, description |-> NoDescription,
   filePath |-> WorkflowsDir \o fileName, fileName |-> fileName,
   inputs |-> Undefined, secrets |-> Undefined, outputs |-> Undefined,
   isReusable |-> isReusable]

InitTable ==
  /\ Idle
  /\ op = "none"
  /\ arg \in Orderings(
       {TableRecord(<<"q","u","a","l","i","t","y","-","a",".","y","m","l">>,
                    <<"A","l","p","h","a">>, "true"),
        TableRecord(<<"t","e","s","t","-","b",".","y","m","l">>,
                    <<"B","e","t","a">>, "true"),
        TableRecord(<<"q","u","a","l","i","t","y","-","c",".","y","m","l">>,
                    <<"G","a","m","m","a">>, "true"),
        TableRecord(<<"t","e","s","t","-","d",".","y","m","l">>,
                    <<"D","e","l","t","a">>, "false"),
        TableRecord(<<"m","i","s","c",".","y","m","l">>, <<"M","u">>, "true"),
        TableRecord(<<"t","e","s","t","-","e",".","y","m","l">>,
                    <<"E","t","a">>, "undefined")},
       MaxRecords)
  /\ result = ""

\* the filter, the grouping loop and the rendering of workflowsSection
ApplyRenderTable ==
  /\ pc = "off" /\ op = "none"
  /\ op' = "renderTable"
  /\ result' = [map |-> CategoriesMap(arg),
                text |-> WorkflowsSection(CategoriesMap(arg))]
  /\ UNCHANGED <<progVars, arg>>

SpecTable == InitTable /\ [][ApplyRenderTable]_vars


(***************************************************************************)
(* The parameter stacks as a function under test: a trigger section of any *)
(* shape, whose workflow_call (when it is a mapping) declares a parameter  *)
(* mapping with a bounded number of keys in some order, is extracted as    *)
(* scanWorkflows extracts it and rendered as the table renders it.         *)
(***************************************************************************)
StackColumns ==
  {Undefined}
    \cup {Mapping(ks) :
            ks \in Orderings({"package-manager", "node-version", "b", "2", "10", "01"},
                             MaxKeys)}
StackOns ==
  {[kind |-> "absent", keys |-> <<>>, call |-> NoCall],
   [kind |-> "string", keys |-> <<"push">>, call |-> NoCall],
   [kind |-> "list", keys |-> <<"push", "workflow_call">>, call |-> NoCall],
   [kind |-> "map", keys |-> <<"push">>, call |-> NoCall],
   [kind |-> "map", keys |-> <<"workflow_call">>, call |-> NullCall]}
  \cup {[kind |-> "map", keys |-> <<"workflow_call">>,
         call |-> [kind |-> "map", inputs |-> c,
                   secrets |-> Mapping(<<"workflow-token">>),
                   outputs |-> Undefined]] : c \in StackColumns}
  \cup {[kind |-> "map", keys |-> <<"push", "workflow_call">>,
         call |-> [kind |-> "map", inputs |-> Mapping(<<>>),
                   secrets |-> Undefined, outputs |-> c]] : c \in StackColumns}

InitStack ==
  /\ Idle
  /\ op = "none"
  /\ arg \in StackOns
  /\ result = ""

\* workflow.on?.workflow_call?.inputs (secrets, outputs), then
\* formatStackedWorkflowDetails of each in the table row
ApplyFormatStacked ==
  /\ pc = "off" /\ op = "none"
  /\ op' = "formatStackedWorkflowDetails"
  /\ result' = [inputs |-> formatStackedWorkflowDetails(CallOf(arg).inputs),
                outputs |-> formatStackedWorkflowDetails(CallOf(arg).outputs),
                secrets |-> formatStackedWorkflowDetails(CallOf(arg).secrets)]
  /\ UNCHANGED <<progVars, arg>>

SpecStack == InitStack /\ [][ApplyFormatStacked]_vars

(***************************************************************************)
(* One run of the generator on a directory populated from all the          *)
(* definition files, the oddly named ones included, with up to MaxDirs     *)
(* action directories, and a README that holds both regions.               *)
(***************************************************************************)
InitLayout ==
  /\ fsFiles \in Orderings(1..Len(Files), MaxFiles)
  /\ fsActions \in {[k \in 1..n |-> k] : n \in 0..Min(MaxDirs, Len(ActionNames))}
  /\ readme = [exists |-> TRUE,
               text |-> ReadmeText(<<"p">>, <<"m">>, <<"a">>, TRUE, TRUE)]
  /\ pc = "scanGlob"
  /\ run = 1
  /\ Locals
  /\ history = <<>>
  /\ op = "none" /\ arg = <<>> /\ result = ""

SpecLayout ==
  InitLayout /\ [][ScanGlob \/ ScanFile \/ ScanReturn \/ GenReadReadme
                     \/ GenBuildTable \/ TreeGlobWorkflows \/ TreeGlobActions
                     \/ TreeFile \/ TreeActions \/ GenWrite]_vars

(***************************************************************************)
(* The earlier renderer (src/unnamed/part_004), which finds its regions by *)
(* their headings.  Its generateDocumentation is called on its own, with   *)
(* no record, so that its table section is the one line "No reusable       *)
(* workflows found."; it reads README.md as the current renderer does      *)
(* (GenReadReadme) and returns to the same entry point.                    *)
(***************************************************************************)
OldTreeHeading == "## [construction] Folder Structure"

\* the tokens of a README that begin with "## "
SectionHeadings == {TableHeading, TreeHeading, OldTreeHeading, "## License"}

\* the earlier generateFolderStructure: the files in glob order, no headers
OldFolderStructure(fs, dirs) ==
  <<Line("open", "", <<>>, "", "")>>
    \o (IF Len(fs) > 0
        THEN <<Line("workflowsDir", "", <<>>, "", "")>>
               \o [k \in 1..Len(fs) |->
                    Line("file", IF k = Len(fs) /\ Len(dirs) = 0 THEN Ell ELSE Tee,
                         Basename(FilePathOf(fs[k])), TypeOf(fs[k]), "")]
        ELSE <<>>)
    \o ActionLines(dirs)

\* the reconstruction of the README around the two headings
OldNewContent(existing, workflowsSection, folderStructureSection) ==
  LET availableWorkflowsStart == CharIndexOf(existing, TableHeading)
      folderStructureStart == CharIndexOf(existing, OldTreeHeading)
      afterFolderStructureHeader ==
        folderStructureStart + TokenLength(OldTreeHeading) + 2
      rest == DropChars(existing, afterFolderStructureHeader)
      \* rest.match(/\n## /): the positions of a newline before a heading
      matches == {k \in 1..(Len(rest) - 1) :
                    rest[k] = "\n" /\ rest[k + 1] \in SectionHeadings}
      folderStructureEnd ==
        IF matches # {}
        THEN afterFolderStructureHeader
               + CharLength(SubSeq(rest, 1,
                   (CHOOSE k \in matches : \A j \in matches : k <= j) - 1))
        ELSE CharLength(existing)
  IN  TakeChars(existing, availableWorkflowsStart)
        \o <<TableHeading, "\n", "\n">>
        \o workflowsSection
        \o <<OldTreeHeading, "\n", "\n">>
        \o folderStructureSection \o <<"\n", "\n">>
        \o DropChars(existing, folderStructureEnd)

\* the READMEs the earlier renderer may find: with or without each heading
\* (or with the heading of the current renderer), with or without a section
\* after the tree, or no README.md at all
HeadingReadmes ==
  {[exists |-> TRUE,
    text |-> <<"p", "\n">> \o table \o Stale \o <<"\n">> \o tree \o Stale \o tail] :
     table \in {<<>>, <<TableHeading, "\n", "\n">>},
     tree \in {<<>>, <<OldTreeHeading, "\n", "\n">>, <<TreeHeading, "\n", "\n">>},
     tail \in {<<>>, <<"\n", "## License", "\n", "a">>}}
    \cup {[exists |-> FALSE, text |-> <<>>]}

InitHeadings ==
  /\ fsFiles \in Orderings(FileIds, MaxFiles)
  /\ fsActions \in {[k \in 1..n |-> k] : n \in 0..Min(MaxActions, Len(ActionNames))}
  /\ readme \in HeadingReadmes
  /\ pc = "genRead"
  /\ run = 1
  /\ Locals
  /\ history = <<>>
  /\ op = "none" /\ arg = <<>> /\ result = ""

\* the table section and await generateFolderStructure(): the enumerations
\* resolve, or one of them rejects and the entry point catches the error
HeadingsBuild ==
  /\ pc = "genTable"
  /\ events' = Append(events, "tree:glob")
  /\ \/ /\ treeFiles' = fsFiles
        /\ actionDirs' = [k \in 1..Len(fsActions) |-> ActionPathOf(fsActions[k])]
        /\ lines' = OldFolderStructure(fsFiles, actionDirs')
        /\ pc' = "splice"
        /\ UNCHANGED <<exitCode, successLogged, history>>
     \/ /\ MainCatch
        /\ UNCHANGED <<treeFiles, actionDirs, lines>>
  /\ UNCHANGED <<fsVars, readme, run, idx, scanVars, genVars, lastCategory, fnVars>>

\* a heading is not found: console.warn and return; the entry point prints
\* a variant that writes the sections at the end of the README when a
\* heading is not found
HeadingsWarnAppending ==
  /\ pc = "splice"
  /\ \/ CharIndexOf(existingContent, TableHeading) = -1
     \/ CharIndexOf(existingContent, OldTreeHeading) = -1
  /\ warnings' = Append(warnings, "headings")
  /\ readme' = [exists |-> TRUE,
                text |-> existingContent \o NoWorkflowsFound
                           \o FolderStructureSection(lines)]
  /\ pc' = "done"
  /\ exitCode' = "0"
  /\ successLogged' = TRUE
  /\ history' = Append(history, [ok |-> TRUE, before |-> readme, after |-> readme'])
  /\ UNCHANGED <<fsVars, run, idx, workflowFiles, workflows, genVars,
                 treeVars, events, fnVars>>

\* its success message
HeadingsWarn ==
  /\ pc = "splice"
  /\ \/ CharIndexOf(existingContent, TableHeading) = -1
     \/ CharIndexOf(existingContent, OldTreeHeading) = -1
  /\ warnings' = Append(warnings, "headings")
  /\ pc' = "done"
  /\ exitCode' = "0"
  /\ successLogged' = TRUE
  /\ history' = Append(history, [ok |-> TRUE, before |-> readme, after |-> readme])
  /\ UNCHANGED <<fsVars, readme, run, idx, workflowFiles, workflows, genVars,
                 treeVars, events, fnVars>>

\* both headings are found: the reconstruction and writeFile('README.md')
HeadingsWrite ==
  /\ pc = "splice"
  /\ CharIndexOf(existingContent, TableHeading) # -1
  /\ CharIndexOf(existingContent, OldTreeHeading) # -1
  /\ events' = Append(events, "gen:write")
  /\ \/ /\ readme' = [exists |-> TRUE,
                      text |-> OldNewContent(existingContent, NoWorkflowsFound,
                                             FolderStructureSection(lines))]
        /\ pc' = "done"
        /\ exitCode' = "0"
        /\ successLogged' = TRUE
        /\ history' = Append(history, [ok |-> TRUE, before |-> readme,
                                       after |-> readme'])
     \/ /\ UNCHANGED readme
        /\ MainCatch
  /\ UNCHANGED <<fsVars, run, idx, scanVars, genVars, treeVars, fnVars>>

SpecHeadings ==
  InitHeadings /\ [][GenReadReadme \/ HeadingsBuild \/ HeadingsWarn
                       \/ HeadingsWrite]_vars

(***************************************************************************)
(* Vocabulary of the properties                                            *)
(***************************************************************************)
Count(q, x) == Cardinality({k \in 1..Len(q) : q[k] = x})
Has(text, marker) == \E k \in 1..Len(text) : text[k] = marker
HasBothPairs(text) == \A m \in Markers : Has(text, m)
FirstAt(text, marker) == CHOOSE k \in 1..Len(text) :
                           text[k] = marker /\ \A j \in 1..(k - 1) : text[j] # marker
TextBefore(text, marker) == SubSeq(text, 1, FirstAt(text, marker) - 1)
TextAfter(text, marker) == SubSeq(text, FirstAt(text, marker) + 1, Len(text))
TextBetween(text, m1, m2) == TextBefore(TextAfter(text, m1), m2)

\* the scan of the current run has returned to the entry point
ScanFinished ==
  pc \in {"genRead", "genTable", "treeGlobWorkflows", "treeGlobActions",
          "treeLoop", "write", "done"}
\* the grouping loop of the current run has finished
TableBuilt ==
  pc \in {"treeGlobWorkflows", "treeGlobActions", "treeLoop", "write", "done"}
\* generateFolderStructure of the current run has returned
TreeComplete == lines # <<>> /\ lines[Len(lines)].kind = "close"

ReadOk(f) == Files[f].readable /\ Files[f].syntaxOk
RecordOf(f) == {j \in 1..Len(workflows) : workflows[j].filePath = FilePathOf(f)}
DeclaresCall(f) == \E k \in 1..Len(Files[f].on.keys) : Files[f].on.keys[k] = "workflow_call"

(***************************************************************************)
(* C1 (fails on the code).  Idempotence: of two successive successful runs *)
(* on an unchanged repository, the first starting from a README with both  *)
(* marker pairs, the second leaves the README exactly as the first left    *)
(* it.                                                                     *)
(***************************************************************************)
C1_Idempotent ==
  \A k \in 1..(Len(history) - 1) :
    (/\ history[k].ok /\ history[k + 1].ok
     /\ history[k].before.exists /\ HasBothPairs(history[k].before.text))
    => history[k + 1].after = history[k].after

(***************************************************************************)
(* C2 (fails on the code).  For a README with both marker pairs, the text  *)
(* before the capability-table begin marker and the text after the         *)
(* folder-tree end marker are the same in the new document as in the       *)
(* original.                                                               *)
(***************************************************************************)
C2_OuterTextUnmodified ==
  \A k \in 1..Len(history) :
    (history[k].ok /\ history[k].before.exists
       /\ HasBothPairs(history[k].before.text))
    => /\ TextBefore(history[k].after.text, BeginTable)
            = TextBefore(history[k].before.text, BeginTable)
       /\ TextAfter(history[k].after.text, EndTree)
            = TextAfter(history[k].before.text, EndTree)

(***************************************************************************)
(* C3 (fails on the code).  Text that the original README has between the  *)
(* capability-table end marker and the folder-tree begin marker is still   *)
(* there, between those two markers, in the new document.                  *)
(***************************************************************************)
C3_TextBetweenRegionsKept ==
  \A k \in 1..Len(history) :
    (/\ history[k].ok /\ history[k].before.exists
     /\ HasBothPairs(history[k].before.text)
     /\ TextBetween(history[k].before.text, EndTable, BeginTree) # <<>>)
    => Includes(TextBetween(history[k].after.text, EndTable, BeginTree),
                TextBetween(history[k].before.text, EndTable, BeginTree))

(***************************************************************************)
(* C4 (fails on the code).  A run on a README that lacks the capability-   *)
(* table begin marker or the folder-tree end marker fails and leaves the   *)
(* README as it was.                                                       *)
(***************************************************************************)
C4_MissingMarkerFatal ==
  \A k \in 1..Len(history) :
    (/\ history[k].before.exists
     /\ ~Has(history[k].before.text, BeginTable)
          \/ ~Has(history[k].before.text, EndTree))
    => ~history[k].ok /\ history[k].after = history[k].before

(***************************************************************************)
(* C5.  README.md is written at most once in a run; the write comes after  *)
(* the README read, the read of every workflow file by the scan and by the *)
(* tree, and all directory enumerations; a run that fails leaves the       *)
(* README as it was.                                                       *)
(***************************************************************************)
AllReadsDone ==
  /\ Count(events, "scan:glob") = 1
  /\ Count(events, "scan:read") = Len(fsFiles)
  /\ Count(events, "gen:readme") = 1
  /\ Count(events, "tree:globWorkflows") = 1
  /\ Count(events, "tree:globActions") = 1
  /\ Count(events, "tree:read") = Len(fsFiles)

C5_SingleFinalWrite ==
  /\ [](Count(events, "gen:write") <= 1)
  /\ [][readme' # readme => (pc = "write" /\ pc' = "done" /\ AllReadsDone
                               /\ Count(events, "gen:write") = 0)]_vars
  /\ [][pc' = "failed" => readme' = readme]_vars

C5_Witness ==
  /\ pc = "done"
  /\ Len(fsFiles) >= 2 /\ Len(fsActions) >= 1
  /\ events[Len(events)] = "gen:write"
  /\ history[Len(history)].after # history[Len(history)].before

(***************************************************************************)
(* C6 (fails on the code).  The result of scanWorkflows is the records of  *)
(* exactly the files that were read and parsed, in enumeration order, and  *)
(* one warning is logged for each file that was not.                       *)
(***************************************************************************)
C6_MalformedFileResilience ==
  ScanFinished =>
    /\ [j \in 1..Len(workflows) |-> workflows[j].filePath]
         = [k \in 1..Len(SelectSeq(fsFiles, ReadOk)) |->
              FilePathOf(SelectSeq(fsFiles, ReadOk)[k])]
    /\ warnings = SelectSeq(fsFiles, LAMBDA f : ~ReadOk(f))

(***************************************************************************)
(* C7 (fails on the code).  A file that parses and declares no name has a  *)
(* record in the result, named by the file's base name without extension.  *)
(***************************************************************************)
C7_FallbackNaming ==
  ScanFinished =>
    \A k \in 1..Len(fsFiles) :
      (ReadOk(fsFiles[k]) /\ ~Files[fsFiles[k]].hasName)
      => \E j \in RecordOf(fsFiles[k]) :
           workflows[j].name \o Extname(Files[fsFiles[k]].fileName)
             = Files[fsFiles[k]].fileName

(***************************************************************************)
(* C8 (fails on the code).  Every file that parses and declares a name has *)
(* a record whose isReusable is true when its trigger section, of whatever *)
(* shape, contains workflow_call, and false when it does not.              *)
(***************************************************************************)
C8_ReusabilityFlag ==
  ScanFinished =>
    \A k \in 1..Len(fsFiles) :
      (ReadOk(fsFiles[k]) /\ Files[fsFiles[k]].hasName)
      => \E j \in RecordOf(fsFiles[k]) :
           workflows[j].isReusable
             = (IF DeclaresCall(fsFiles[k]) THEN "true" ELSE "false")

(***************************************************************************)
(* C9.  The capability table has exactly one row for every record with     *)
(* isReusable true and none for any other record; the folder tree has one  *)
(* file line for every enumerated definition file, reusable or not.        *)
(***************************************************************************)
TableRows == Flatten([k \in 1..Len(categoriesMap) |-> categoriesMap[k].workflows])
FileLineNames == [k \in 1..Len(SelectSeq(lines, LAMBDA l : l.kind = "file")) |->
                    SelectSeq(lines, LAMBDA l : l.kind = "file")[k].text]
\* the file lines of a rendered tree: the indent, a connector and a blank
FileLinesIn(text) ==
  {k \in 1..(Len(text) - 2) : text[k] = "|   " /\ text[k + 2] = " "}

C9_TableAndTreeMembership ==
  /\ TableBuilt =>
       /\ \A j \in 1..Len(workflows) :
            Count(TableRows, workflows[j])
              = (IF workflows[j].isReusable = "true" THEN 1 ELSE 0)
       /\ \A k \in 1..Len(TableRows) : Count(workflows, TableRows[k]) = 1
       /\ Count(WorkflowsSection(categoriesMap), RowOpen)
            = Cardinality({j \in 1..Len(workflows) : workflows[j].isReusable = "true"})
  /\ TreeComplete =>
       /\ Len(FileLineNames) = Len(fsFiles)
       /\ \A k \in 1..Len(fsFiles) :
            Count(FileLineNames, Files[fsFiles[k]].fileName) = 1
  /\ pc = "done" =>
       /\ Count(readme.text, RowOpen)
            = Cardinality({j \in 1..Len(workflows) : workflows[j].isReusable = "true"})
       /\ Cardinality(FileLinesIn(readme.text)) = Len(fsFiles)

C9_Witness ==
  /\ pc = "done"
  /\ \E j \in 1..Len(workflows) : workflows[j].isReusable = "true"
  /\ \E j \in 1..Len(workflows) : workflows[j].isReusable = "false"
  /\ Len(TableRows) = 1
  /\ Len(FileLineNames) = 2

(***************************************************************************)
(* C10.  Classification returns, for every file name (the empty name       *)
(* included), one category of the fixed set: the category of the first     *)
(* rule, in declaration order, one of whose prefixes the name starts with, *)
(* and Miscellaneous when there is no such rule.                           *)
(***************************************************************************)
Categories == {"Internal", "Testing", "Code Quality", "Deployment", "Security",
               "Utilities", "Documentation", "Notifications", "Monitoring",
               "Miscellaneous"}
BeginsWith(name, p) ==
  Len(p) <= Len(name) /\ \A j \in 1..Len(p) : name[j] = p[j]
RulesFor(name) ==
  {k \in 1..Len(CATEGORY_MAPPINGS) :
     \E j \in 1..Len(CATEGORY_MAPPINGS[k].prefixes) :
       BeginsWith(name, CATEGORY_MAPPINGS[k].prefixes[j])}
\* the name the applied function classifies
ClassifiedName ==
  IF op = "categorizeWorkflow" THEN StripYml(arg) ELSE arg

KeywordRulesFor(name) ==
  {k \in 1..Len(KEYWORD_MAPPINGS) :
     \E j \in 1..Len(KEYWORD_MAPPINGS[k].keywords) :
       Includes(ToLower(name), KEYWORD_MAPPINGS[k].keywords[j])}
\* the file name of a record without its directory and extension
StemOf(workflow) == StripYml(LastSegment(workflow.filePath, TRUE))

C11_KeywordFallback ==
  (op = "categorizeWorkflow" /\ RulesFor(StemOf(arg)) = {}) =>
    /\ KeywordRulesFor(arg.name) = {} => result = "Miscellaneous"
    /\ KeywordRulesFor(arg.name) # {} =>
         result = KEYWORD_MAPPINGS[CHOOSE k \in KeywordRulesFor(arg.name) :
                    \A j \in KeywordRulesFor(arg.name) : k <= j].category

\* a text with every occurrence of a token removed
Without(text, tok) == SelectSeq(text, LAMBDA c : c # tok)
\* the segments of the wrapped text
Segments == SplitOn(result, "<br>")
WhitespaceFree(text) == \A k \in 1..Len(text) : ~IsSpace(text[k])

(***************************************************************************)
(* C12.  For every text and every width n >= 1, every segment of           *)
(* wrapText(text, n), split on the break marker, is at most n characters   *)
(* long; when the text is one whitespace-free run longer than n, every     *)
(* segment but the last is exactly n long and the last is a non-empty      *)
(* remainder of at most n.                                                 *)
(***************************************************************************)
C12_WrapWidthBound ==
  op = "wrapText" =>
    /\ \A k \in 1..Len(Segments) : Len(Segments[k]) <= arg.maxLength
    /\ (WhitespaceFree(arg.text) /\ Len(arg.text) > arg.maxLength) =>
         /\ \A k \in 1..(Len(Segments) - 1) : Len(Segments[k]) = arg.maxLength
         /\ Len(Segments[Len(Segments)]) \in 1..arg.maxLength
         /\ Len(Segments) = (Len(arg.text) + arg.maxLength - 1) \div arg.maxLength

C12_Witness ==
  /\ op = "wrapText"
  /\ arg.text = <<"a","a","a","a","a">> /\ arg.maxLength = 2
  /\ Segments = << <<"a","a">>, <<"a","a">>, <<"a">> >>

(***************************************************************************)
(* C13 (fails on the code).  For every text without a break marker and     *)
(* every width n >= 1, removing the break markers from wrapText(text, n)   *)
(* gives back the text, character for character.                           *)
(***************************************************************************)
C13_WrapRoundTrip ==
  op = "wrapText" => Without(result, "<br>") = arg.text

(***************************************************************************)
(* C16 (fails on the code).  For a text longer than n: when one of its     *)
(* first n characters is a space, the first break replaces the last such   *)
(* space; the text is hard-split after n characters only when it starts    *)
(* with a whitespace-free run longer than n; and the first segment neither *)
(* begins nor ends with one of those spaces.                               *)
(***************************************************************************)
BreakCandidates == {k \in 1..arg.maxLength : arg.text[k] = " "}
LastCandidate == CHOOSE k \in BreakCandidates : \A j \in BreakCandidates : k >= j

C16_WrapBreakPosition ==
  (op = "wrapText" /\ Len(arg.text) > arg.maxLength) =>
    /\ BreakCandidates # {} =>
         /\ Segments[1] = SubSeq(arg.text, 1, LastCandidate - 1)
         /\ Segments[1] # <<>> =>
              /\ ~(1 \in BreakCandidates)
              /\ ~(Len(Segments[1]) \in BreakCandidates)
    /\ BreakCandidates = {} =>
         /\ Segments[1] = SubSeq(arg.text, 1, arg.maxLength)
         /\ WhitespaceFree(SubSeq(arg.text, 1, arg.maxLength + 1))

(***************************************************************************)
(* C14.  The description of a raw text is the trimmed body of its first    *)
(* comment line (a line whose trimmed form starts with #) that has a       *)
(* non-empty body and lies before the first line that is neither blank nor *)
(* a comment; blank lines and comments with empty bodies are passed over;  *)
(* when there is no such comment line the description is                   *)
(* "No description provided.".                                             *)
(***************************************************************************)
RawLines == SplitOn(arg, "\n")
IsBlankLine(l) == \A k \in 1..Len(l) : IsSpace(l[k])
FirstInk(l) == CHOOSE k \in 1..Len(l) : ~IsSpace(l[k]) /\ \A j \in 1..(k - 1) : IsSpace(l[j])
IsCommentLine(l) == ~IsBlankLine(l) /\ l[FirstInk(l)] = "#"
CommentBody(l) == Trim(SubSeq(l, FirstInk(l) + 1, Len(l)))
\* the lines before the first one that is neither blank nor a comment
Preamble ==
  {k \in 1..Len(RawLines) :
     \A j \in 1..k : IsBlankLine(RawLines[j]) \/ IsCommentLine(RawLines[j])}
Described ==
  {k \in Preamble : IsCommentLine(RawLines[k]) /\ CommentBody(RawLines[k]) # <<>>}

C14_DescriptionExtraction ==
  op = "getWorkflowDescription" =>
    /\ Described = {} => result = NoDescription
    /\ Described # {} =>
         result = CommentBody(RawLines[CHOOSE k \in Described :
                                         \A j \in Described : k <= j])

C14_Witness ==
  /\ op = "getWorkflowDescription"
  /\ RawLines = << <<"#", "A">>, <<"#">>, <<" ", "#", " ", "B", " ", "\r">>, <<"x">> >>
  /\ result = <<"A">>

(***************************************************************************)
(* C15.  generateDocumentation starts only after scanWorkflows has read    *)
(* every enumerated file and returned, and works on the records it         *)
(* returned; the process ends with status 1 exactly when a call of the     *)
(* scan or of the generation rejected (a per-file failure inside the scan  *)
(* is not one) and with status 0 otherwise; the success message is printed *)
(* only after the README write of the generation has returned.             *)
(***************************************************************************)
IsScanEvent(e) == e \in {"scan:glob", "scan:read"}
RejectableCalls == {"scan:glob", "tree:globWorkflows", "tree:globActions", "gen:write"}
GenerationStarted == \E k \in 1..Len(events) : ~IsScanEvent(events[k])

C15_OrchestratorSequencing ==
  /\ \A j \in 2..Len(events) : IsScanEvent(events[j]) => IsScanEvent(events[j - 1])
  /\ (GenerationStarted \/ pc = "genRead") =>
       /\ workflowFiles = fsFiles
       /\ Count(events, "scan:read") = Len(fsFiles)
       /\ Len(workflows) + Len(warnings) = Len(fsFiles)
  /\ TableBuilt => categoriesMap = CategoriesMap(workflows)
  /\ (exitCode = "1") <=> (pc = "failed")
  /\ (exitCode = "0") <=> (pc = "done")
  /\ pc = "failed" =>
       /\ events # <<>> /\ events[Len(events)] \in RejectableCalls
       /\ ~history[Len(history)].ok
       /\ ~successLogged
  /\ successLogged <=> pc = "done"
  /\ successLogged =>
       /\ events[Len(events)] = "gen:write"
       /\ history[Len(history)].ok

C15_Witness ==
  /\ pc = "failed" /\ exitCode = "1" /\ ~successLogged
  /\ warnings # <<>> /\ workflows # <<>>
  /\ events[Len(events)] = "gen:write"

(***************************************************************************)
(* C17 (fails on the code).  The display name of a definition with a title *)
(* is the title without its leading Reusable (in any letter case) and the  *)
(* one space or dot after it, when the title starts that way, and the      *)
(* title unchanged when it does not, also when it holds the word further   *)
(* on; a title of which nothing is left gives the base name of the file    *)
(* without its extension.                                                  *)
(***************************************************************************)
HasReusablePrefix(title) ==
  /\ Len(title) >= 9
  /\ ToLower(SubSeq(title, 1, 8)) = ReusableToken
  /\ title[9] \in {" ", "."}
PrefixStripped(title) ==
  IF HasReusablePrefix(title) THEN SubSeq(title, 10, Len(title)) ELSE title

C17_TitlePrefixStripping ==
  op = "workflowName" =>
    /\ PrefixStripped(arg.title) # <<>> => result = PrefixStripped(arg.title)
    /\ PrefixStripped(arg.title) = <<>> =>
         result \o Extname(arg.filePath) = Basename(arg.filePath)

(***************************************************************************)
(* C18.  The sections of the table are the categories of the reusable      *)
(* records, each once, in the order in which the categories are first met  *)
(* along the input sequence; the rows of a section are the reusable        *)
(* records of its category in input order; every reusable record has       *)
(* exactly one row, in the map and in the rendered text.                   *)
(***************************************************************************)
ReusableInputs == SelectSeq(arg, LAMBDA w : w.isReusable = "true")
FirstSeen(category) ==
  CHOOSE k \in 1..Len(ReusableInputs) :
    /\ categorizeWorkflow(ReusableInputs[k]) = category
    /\ \A j \in 1..(k - 1) : categorizeWorkflow(ReusableInputs[j]) # category
HeaderAt(text, category) == IndexOf(text, <<"### ", IconOf(category), " ", category>>)
RowAt(text, workflow) ==
  IndexOf(text, <<"](./">> \o workflow.filePath \o <<")** | ">>)

C18_TableOrdering ==
  op = "renderTable" =>
    /\ {result.map[a].category : a \in 1..Len(result.map)}
         = {categorizeWorkflow(ReusableInputs[k]) : k \in 1..Len(ReusableInputs)}
    /\ \A a, b \in 1..Len(result.map) :
         a < b => /\ result.map[a].category # result.map[b].category
                  /\ FirstSeen(result.map[a].category) < FirstSeen(result.map[b].category)
                  /\ HeaderAt(result.text, result.map[a].category)
                       < HeaderAt(result.text, result.map[b].category)
    /\ \A a \in 1..Len(result.map) :
         /\ result.map[a].workflows
              = SelectSeq(ReusableInputs,
                          LAMBDA w : categorizeWorkflow(w) = result.map[a].category)
         /\ Count(result.text, "### ") = Len(result.map)
         /\ HeaderAt(result.text, result.map[a].category) # -1
    /\ Count(result.text, RowOpen) = Len(ReusableInputs)
    /\ \A i, j \in 1..Len(ReusableInputs) :
         /\ RowAt(result.text, ReusableInputs[i])
              > HeaderAt(result.text, categorizeWorkflow(ReusableInputs[i]))
         /\ (i < j /\ categorizeWorkflow(ReusableInputs[i])
                        = categorizeWorkflow(ReusableInputs[j]))
            => RowAt(result.text, ReusableInputs[i]) < RowAt(result.text, ReusableInputs[j])
         /\ FirstSeen(categorizeWorkflow(ReusableInputs[i]))
              < FirstSeen(categorizeWorkflow(ReusableInputs[j]))
            => RowAt(result.text, ReusableInputs[i]) < RowAt(result.text, ReusableInputs[j])

C18_Witness ==
  /\ op = "renderTable"
  /\ Len(ReusableInputs) = 3
  /\ Len(result.map) = 2
  /\ result.map[1].category = "Code Quality"
  /\ result.map[1].workflows = <<arg[1], arg[3]>>
  /\ result.map[2].workflows = <<arg[2]>>

(***************************************************************************)
(* C19 (fails on the code).  Each of inputs, outputs and secrets renders   *)
(* as *None* when the mapping is absent or has no entry, and otherwise as  *)
(* its key names in declaration order, each between backticks, with a      *)
(* break marker between one name and the next.                             *)
(***************************************************************************)
\* the mapping a trigger section declares for a field of workflow_call
Declared(on, field) ==
  IF on.kind = "map" /\ on.call.kind = "map" THEN on.call[field] ELSE Undefined
StackedAs(cell, columns) ==
  IF ~columns.defined \/ columns.keys = <<>> THEN cell = <<"*None*">>
  ELSE /\ Len(cell) = 4 * Len(columns.keys) - 1
       /\ \A k \in 1..Len(columns.keys) :
            /\ SubSeq(cell, 4 * k - 3, 4 * k - 1)
                 = <<"<backtick>", columns.keys[k], "<backtick>">>
            /\ k < Len(columns.keys) => cell[4 * k] = "<br>"

C19_ParameterStackRendering ==
  op = "formatStackedWorkflowDetails" =>
    \A field \in {"inputs", "outputs", "secrets"} :
      StackedAs(result[field], Declared(arg, field))

(***************************************************************************)
(* C20 (fails on the code).  After a successful run the capability region  *)
(* of the README is, between its begin marker and its end marker: the      *)
(* section heading, the auto-generation notice with its callout, and then  *)
(* the category tables, or the one line "No reusable workflows found."     *)
(* when there is no category.                                              *)
(***************************************************************************)
RenderedContent(map) ==
  IF map = <<>> THEN NoWorkflowsFound
  ELSE Flatten([k \in 1..Len(map) |-> CategoryTable(map[k])])

C20_TableRegionComposition ==
  pc = "done" =>
    TextBetween(readme.text, BeginTable, EndTable)
      = <<"\n", TableHeading, "\n", "\n">> \o AutoNotice \o TableCallout
          \o RenderedContent(categoriesMap)

\* the positions, in the tree, of the lines of the given kinds
LinesOf(kinds) == {k \in 1..Len(lines) : lines[k].kind \in kinds}
FileLineAt == LinesOf({"file"})
HeaderLineAt == LinesOf({"header"})
\* the greatest and the least position of a non-empty set of positions
Last(S) == CHOOSE k \in S : \A j \in S : j <= k
First(S) == CHOOSE k \in S : \A j \in S : k <= j
\* the file line above a file line, and the header that governs a line
FileAbove(k) == {j \in FileLineAt : j < k}
HeaderAbove(k) == {h \in HeaderLineAt : h < k}
\* the category of a file name: that of the first rule it begins with
CategoryOfName(name) ==
  IF RulesFor(name) = {} THEN "Miscellaneous"
  ELSE CATEGORY_MAPPINGS[First(RulesFor(name))].category
\* the characters of file names in the order of their ASCII codes
AsciiOrder == <<"-", ".", "0", "1", "2", "3", "4", "5", "6", "7", "8", "9">>
                \o UpperAlpha \o <<"_">> \o LowerAlpha
AsciiCode(c) == CHOOSE k \in 1..Len(AsciiOrder) : AsciiOrder[k] = c
\* a comes strictly before b, compared code by code
AsciiBefore(a, b) ==
  \E k \in 1..(Min(Len(a), Len(b)) + 1) :
    /\ \A j \in 1..(k - 1) : a[j] = b[j]
    /\ k <= Len(b)
    /\ k <= Len(a) => AsciiCode(a[k]) < AsciiCode(b[k])
\* a header stands right above the file line at k, below its blank connector
\* line when it is not the first header
HeaderRightAbove(k) == k > 1 /\ lines[k - 1].kind = "header"
GroupingOf(k) ==
  /\ HeaderRightAbove(k)
       <=> (FileAbove(k) = {}
              \/ CategoryOfName(lines[Last(FileAbove(k))].text)
                   # CategoryOfName(lines[k].text))
  /\ HeaderAbove(k) # {}
  /\ lines[Last(HeaderAbove(k))].category = CategoryOfName(lines[k].text)
GapOf(h) ==
  /\ lines[h + 1].kind = "file"
  /\ (lines[h - 1].kind = "gap") <=> (h # First(HeaderLineAt))
  /\ \A g \in LinesOf({"gap"}) : g + 1 \in HeaderLineAt

(* C21 (fails on the code).  The file lines of the tree are in the ASCII   *)
(* order of their file names; a category header stands right above a file  *)
(* line exactly when the file is the first or its category differs from    *)
(* that of the file above, so that the nearest header above a file line    *)
(* names the category of the file; a blank connector line stands above     *)
(* every header but the first.                                             *)
C21_TreeGrouping ==
  TreeComplete =>
    /\ \A j, k \in FileLineAt :
         j < k => AsciiBefore(lines[j].text, lines[k].text)
    /\ \A k \in FileLineAt : GroupingOf(k)
    /\ \A h \in HeaderLineAt : GapOf(h)

\* the connector a line is drawn with: the first connector glyph of its text
ConnectorOf(l) ==
  LET text == RenderLine(l)
  IN  text[First({k \in 1..Len(text) : text[k] \in {Tee, Ell}})]
\* the last line of a group is drawn with the terminal connector, every
\* other line of the group with the interior one
TerminalRule(group) ==
  \A k \in group : ConnectorOf(lines[k]) = (IF k = Last(group) THEN Ell ELSE Tee)

(* C22 (fails on the code).  In each group of the tree (the lines under    *)
(* workflows/, the directories under actions/, the directories under       *)
(* .github/) the last line is drawn with the terminal connector and every  *)
(* other line with the interior connector; exactly one line under          *)
(* workflows/ has the terminal connector, with or without action           *)
(* directories.                                                            *)
C22_TerminalConnectors ==
  TreeComplete =>
    /\ TerminalRule(LinesOf({"header", "file"}))
    /\ TerminalRule(LinesOf({"action"}))
    /\ TerminalRule(LinesOf({"workflowsDir", "actionsDir"}))
    /\ FileLineAt # {} =>
         Cardinality({k \in LinesOf({"header", "file"}) :
                        ConnectorOf(lines[k]) = Ell}) = 1

\* the file a file line of the tree was written for
FileOfLine(k) == CHOOSE f \in 1..Len(Files) : Files[f].fileName = lines[k].text
Annotations == {" (reusable)", " (internal)"}
\* the raw text of the file holds the token workflow_call
HasCallToken(f) == \E k \in 1..Len(ContentOf(f)) : ContentOf(f)[k] = "workflow_call"
\* the annotation, if any, that the rendered text holds after the file name
AnnotationOf(k) ==
  LET text == RenderLine(lines[k])
  IN  {text[j] : j \in {i \in 1..Len(text) : text[i] \in Annotations}}

(* C23 as stated (fails on the code).  Every file line of the tree has     *)
(* exactly one of the annotations (reusable) and (internal), and it is     *)
(* (reusable) exactly when the raw text of the file holds workflow_call;   *)
(* so also for a file whose re-read fails.                                 *)
C23_TreeAnnotation ==
  TreeComplete =>
    \A k \in FileLineAt :
      /\ Cardinality(AnnotationOf(k)) = 1
      /\ " (reusable)" \in AnnotationOf(k) <=> HasCallToken(FileOfLine(k))

(* C23 as amended.  Every file line of a file whose re-read succeeds has   *)
(* exactly one of the two annotations, (reusable) exactly when the raw     *)
(* text of the file holds workflow_call; the line of a file whose re-read  *)
(* fails has no annotation.                                                *)
C23_TreeAnnotationWhenRead ==
  TreeComplete =>
    \A k \in FileLineAt :
      IF Files[FileOfLine(k)].readable
      THEN /\ Cardinality(AnnotationOf(k)) = 1
           /\ " (reusable)" \in AnnotationOf(k) <=> HasCallToken(FileOfLine(k))
           /\ lines[k].note \in Annotations
      ELSE AnnotationOf(k) = {} /\ lines[k].note = ""

C23_Witness ==
  /\ TreeComplete
  /\ \E k \in FileLineAt : ~Files[FileOfLine(k)].readable
  /\ \E k \in FileLineAt : AnnotationOf(k) = {" (reusable)"}

\* the lines of the actions section below its directory line
ActionSection == LinesOf({"action", "actionChild"})
\* the position of the directory line of the d-th action directory
ActionLineOf(d) == First(ActionSection) + 2 * (d - 1)

(* C24.  Every action-directory line of the tree stands below all the      *)
(* workflow file lines; each enumerated action directory has exactly two   *)
(* consecutive lines, its name followed by a slash and then the terminal   *)
(* connector with action.yml; the last directory is drawn with the         *)
(* terminal connector and all earlier ones with the interior connector;    *)
(* without action directories the tree has no actions section at all.      *)
C24_ActionDirectories ==
  TreeComplete =>
    /\ \A a \in ActionSection \cup LinesOf({"actionsDir"}) :
         \A k \in FileLineAt : k < a
    /\ Cardinality(ActionSection) = 2 * Len(actionDirs)
    /\ Cardinality(LinesOf({"actionsDir"})) = (IF Len(actionDirs) = 0 THEN 0 ELSE 1)
    /\ Len(actionDirs) = 0 =>
         ~Has(RenderLines(lines), " actions/            # Custom Composite Actions")
    /\ Len(actionDirs) > 0 =>
         /\ First(ActionSection) = First(LinesOf({"actionsDir"})) + 1
         /\ Last(ActionSection) = Len(lines) - 1
         /\ \A d \in 1..Len(actionDirs) :
              /\ lines[ActionLineOf(d)].kind = "action"
              /\ RenderLine(lines[ActionLineOf(d)])
                   = <<"    ", IF d = Len(actionDirs) THEN Ell ELSE Tee, " ",
                       ActionNames[fsActions[d]], "/", "\n">>
              /\ lines[ActionLineOf(d) + 1].kind = "actionChild"
              /\ SubSeq(RenderLine(lines[ActionLineOf(d) + 1]), 3, 6)
                   = <<"   ", Ell, " action.yml", "\n">>

C24_Witness ==
  /\ TreeComplete
  /\ Len(actionDirs) = 2
  /\ FileLineAt # {}
  /\ ConnectorOf(lines[ActionLineOf(1)]) = Tee
  /\ ConnectorOf(lines[ActionLineOf(2)]) = Ell

\* the category of the table section that holds the row of a record
SectionsOf(workflow) ==
  {categoriesMap[k].category : k \in {j \in 1..Len(categoriesMap) :
     Count(categoriesMap[j].workflows, workflow) > 0}}
\* the file line of the tree that was written for a record
LineOfRecord(workflow) == {k \in FileLineAt : lines[k].text = workflow.fileName}

(* C27 (fails on the code).  For every reusable workflow file the category *)
(* of the table section that holds its row is the category of the header   *)
(* that governs its line in the folder tree.                               *)
C27_TableTreeAgreement ==
  TreeComplete =>
    \A j \in 1..Len(workflows) :
      workflows[j].isReusable = "true" =>
        \A k \in LineOfRecord(workflows[j]) :
          SectionsOf(workflows[j]) = {lines[Last(HeaderAbove(k))].category}

\* each of the four markers once, in the order the generator writes them
WellFormed(text) ==
  /\ \A m \in Markers : Count(text, m) = 1
  /\ FirstAt(text, BeginTable) < FirstAt(text, EndTable)
  /\ FirstAt(text, EndTable) < FirstAt(text, BeginTree)
  /\ FirstAt(text, BeginTree) < FirstAt(text, EndTree)

(* C26.  When the README that the first run finds holds each of the four   *)
(* markers exactly once, in the order begin-table, end-table, begin-tree,  *)
(* end-tree, the README holds each of them exactly once and in that order  *)
(* after every run (no name, description or key of the repository holds a  *)
(* marker).                                                                *)
C26_MarkersWellFormed ==
  (history # <<>> /\ history[1].before.exists
     /\ WellFormed(history[1].before.text)) =>
    /\ readme.exists
    /\ WellFormed(readme.text)

C26_Witness ==
  /\ Len(history) = 2
  /\ history[1].ok /\ history[2].ok
  /\ WellFormed(history[1].before.text)
  /\ history[1].before.text # history[1].after.text
  /\ readme = history[2].after

\* the README that was read lacks one of the two headings (it holds nothing
\* when README.md could not be read)
LacksHeading ==
  /\ pc # "genRead"
  /\ ~Has(existingContent, TableHeading) \/ ~Has(existingContent, OldTreeHeading)
\* README.md is as the run found it and the write was not called
NotWritten ==
  /\ ~Has(events, "gen:write")
  /\ readme.text = existingContent
  /\ \A k \in 1..Len(history) : history[k].before = history[k].after
WarnedAndReturned ==
  pc = "done" => warnings = <<"headings">> /\ exitCode = "0"

====
